---- MODULE Spec2Model ----
(***************************************************************************)
(* A model of the syslog-loose parser.  Text is a sequence of one-character*)
(* strings; every sub-parser is an operator from the remaining text to a   *)
(* record [ok, rest, val], as the nom parsers of the crate are functions   *)
(* from the remaining input to (rest, value) or an error.                  *)
(***************************************************************************)
EXTENDS Integers, Sequences, FiniteSets, TLC

\* ------------------------------------------------------------------------
\* Option<T>: None is the empty tuple, Some(x) the one-element tuple.
\* ------------------------------------------------------------------------
None == << >>
Some(x) == << x >>
IsSome(o) == Len(o) = 1
IsNone(o) == Len(o) = 0
Unwrap(o) == o[1]

\* ------------------------------------------------------------------------
\* Character classes
\* ------------------------------------------------------------------------
Digits == {"0", "1", "2", "3", "4", "5", "6", "7", "8", "9"}

DigitVal(c) ==
  CASE c = "0" -> 0 [] c = "1" -> 1 [] c = "2" -> 2 [] c = "3" -> 3
    [] c = "4" -> 4 [] c = "5" -> 5 [] c = "6" -> 6 [] c = "7" -> 7
    [] c = "8" -> 8 [] c = "9" -> 9

DigitChar(n) ==
  CASE n = 0 -> "0" [] n = 1 -> "1" [] n = 2 -> "2" [] n = 3 -> "3"
    [] n = 4 -> "4" [] n = 5 -> "5" [] n = 6 -> "6" [] n = 7 -> "7"
    [] n = 8 -> "8" [] n = 9 -> "9"

\* char::is_whitespace, restricted to the white space the inputs contain
Whitespace == {" ", "\t", "\n"}
\* nom space0 / space1 accept blanks and tabs only
Blank == {" ", "\t"}

\* ------------------------------------------------------------------------
\* Parser results and primitive combinators
\* ------------------------------------------------------------------------
Err == [ok |-> FALSE, rest |-> << >>, val |-> << >>]
Ok(rest, val) == [ok |-> TRUE, rest |-> rest, val |-> val]

\* one step of a nom tuple: r is the result of the steps before it, its value
\* the tuple of the values kept so far, and q the result of the step's parser
\* on what r left; the value of q is kept, or skipped
Kept(r, q) == IF q.ok THEN Ok(q.rest, Append(r.val, q.val)) ELSE Err
Skipped(r, q) == IF q.ok THEN Ok(q.rest, r.val) ELSE Err

\* nom map_res / map_opt: the parser fails when the conversion gives nothing
MapOpt(rest, opt) == IF opt = << >> THEN Err ELSE Ok(rest, opt[1])

SetMin(S) == CHOOSE x \in S : \A y \in S : x <= y

Drop(s, n) == SubSeq(s, n + 1, Len(s))
Take(s, n) == SubSeq(s, 1, n)

\* length of the longest prefix of s made of characters in S
PrefixIn(s, S) ==
  LET bad == {i \in 1..Len(s) : s[i] \notin S}
  IN  IF bad = {} THEN Len(s) ELSE SetMin(bad) - 1

\* length of the longest prefix of s made of characters not in S
PrefixNotIn(s, S) ==
  LET bad == {i \in 1..Len(s) : s[i] \in S}
  IN  IF bad = {} THEN Len(s) ELSE SetMin(bad) - 1

StartsWith(s, t) == Len(s) >= Len(t) /\ Take(s, Len(t)) = t

\* nom tag
Tag(s, t) == IF StartsWith(s, t) THEN Ok(Drop(s, Len(t)), t) ELSE Err

\* opt(tag(":"))
OptColon(s) == IF StartsWith(s, <<":">>) THEN Drop(s, 1) ELSE s

\* nom space0 and space1
Space0(s) == Drop(s, PrefixIn(s, Blank))
Space1(s) ==
  LET n == PrefixIn(s, Blank)
  IN  IF n = 0 THEN Err ELSE Ok(Drop(s, n), Take(s, n))

\* the steps tag(t) and space1 of a tuple
SkipTag(r, t) == IF r.ok THEN Skipped(r, Tag(r.rest, t)) ELSE Err
SkipSpace1(r) == IF r.ok THEN Skipped(r, Space1(r.rest)) ELSE Err

\* nom take_until(c) for a one-character pattern: fails when c does not occur
TakeUntil(s, c) ==
  LET n == PrefixNotIn(s, {c})
  IN  IF n = Len(s) THEN Err ELSE Ok(Drop(s, n), Take(s, n))

\* str::trim
Trim(s) ==
  LET a == PrefixIn(s, Whitespace)
      good == {i \in 1..Len(s) : s[i] \notin Whitespace}
  IN  IF good = {} THEN << >>
      ELSE SubSeq(s, a + 1, CHOOSE i \in good : \A j \in good : j <= i)

RECURSIVE DigitsValue(_)
DigitsValue(ds) ==
  IF Len(ds) = 0 THEN 0
  ELSE 10 * DigitsValue(Take(ds, Len(ds) - 1)) + DigitVal(ds[Len(ds)])

\* the largest values of u8, i32 and u32, as decimal digits
U8MaxDigits == <<"2", "5", "5">>
I32MaxDigits == <<"2", "1", "4", "7", "4", "8", "3", "6", "4", "7">>
U32MaxDigits == <<"4", "2", "9", "4", "9", "6", "7", "2", "9", "5">>

\* ds without its leading zeros (one digit is always kept)
StripZeros(ds) ==
  LET z == PrefixIn(ds, {"0"})
  IN  IF z = Len(ds) THEN <<"0">> ELSE Drop(ds, z)

\* a <= b for digit strings without leading zeros
DigitsLeq(a, b) ==
  IF Len(a) # Len(b) THEN Len(a) < Len(b)
  ELSE LET diff == {i \in 1..Len(a) : a[i] # b[i]}
       IN  diff = {} \/ DigitVal(a[SetMin(diff)]) < DigitVal(b[SetMin(diff)])

\* T::from_str on a run of digits: fails when the number exceeds T::MAX.
\* (TLC integers are 32 bits wide: a u32 above i32::MAX is not representable,
\* and no input of the model carries one.)
FromStrUnsigned(ds, maxDigits) ==
  LET d == StripZeros(ds)
  IN  IF DigitsLeq(d, maxDigits) /\ DigitsLeq(d, I32MaxDigits)
      THEN Some(DigitsValue(d)) ELSE None

\* digits::<T>: digit1 followed by T::from_str
DigitsT(s, maxDigits) ==
  LET n == PrefixIn(s, Digits)
      v == FromStrUnsigned(Take(s, n), maxDigits)
  IN  IF n = 0 \/ IsNone(v) THEN Err ELSE Ok(Drop(s, n), Unwrap(v))

\* the step digits of a tuple
KeepDigits(r, maxDigits) == IF r.ok THEN Kept(r, DigitsT(r.rest, maxDigits)) ELSE Err

\* ------------------------------------------------------------------------
\* pri.rs: the priority
\* ------------------------------------------------------------------------
FacilityCount == 24

\* SyslogFacility::from_int without the arm for unknown codes
FacilityFromInt_Unchecked(i) == Some(i)

\* SyslogFacility::from_int and SyslogSeverity::from_int
FacilityFromInt(i) == IF i >= 0 /\ i < FacilityCount THEN Some(i) ELSE None
SeverityFromInt(i) == IF i >= 0 /\ i <= 7 THEN Some(i) ELSE None

decompose_pri(p) ==
  [facility |-> FacilityFromInt(p \div 8), severity |-> SeverityFromInt(p % 8)]

\* compose_pri shifting the facility by four bits
compose_pri_Shift4(facility, severity) == facility * 16 + severity

compose_pri(facility, severity) == facility * 8 + severity

NoPri == [facility |-> None, severity |-> None]

\* pri without the opt: a line without a priority is an error
pri_Required(s) ==
  LET open == SkipTag(Ok(s, << >>), <<"<">>)
      num == KeepDigits(open, U8MaxDigits)
      close == SkipTag(num, <<">">>)
  IN  IF close.ok THEN Ok(close.rest, decompose_pri(close.val[1])) ELSE Err

\* opt(delimited(tag("<"), map(digits, decompose_pri), tag(">"))), never fails
pri(s) ==
  LET open == SkipTag(Ok(s, << >>), <<"<">>)
      num == KeepDigits(open, U8MaxDigits)
      close == SkipTag(num, <<">">>)
  IN  IF close.ok THEN Ok(close.rest, decompose_pri(close.val[1])) ELSE Ok(s, NoPri)

\* ------------------------------------------------------------------------
\* parsers.rs: a header token
\* ------------------------------------------------------------------------
\* optional without the test for a lone colon
optional_LoneColonIsField(s, has_colons) ==
  LET stop == IF has_colons THEN Whitespace ELSE Whitespace \cup {":"}
      n == PrefixNotIn(s, stop)
      value == Take(s, n)
  IN  IF n = 0 THEN Err
      ELSE IF value[n] = ":" THEN Ok(Drop(s, n - 1), Some(Take(value, n - 1)))
      ELSE IF value = <<"-">> THEN Ok(Drop(s, n), None)
      ELSE Ok(Drop(s, n), Some(value))

optional(s, has_colons) ==
  LET stop == IF has_colons THEN Whitespace ELSE Whitespace \cup {":"}
      n == PrefixNotIn(s, stop)
      value == Take(s, n)
  IN  IF n = 0 THEN Err
      ELSE IF value = <<":">> THEN Err
      ELSE IF value[n] = ":" THEN Ok(Drop(s, n - 1), Some(Take(value, n - 1)))
      ELSE IF value = <<"-">> THEN Ok(Drop(s, n), None)
      ELSE Ok(Drop(s, n), Some(value))

hostname(s) == optional(s, TRUE)
tagname(s) == optional(s, FALSE)
appname(s) == optional(s, TRUE)
procid(s) == optional(s, TRUE)
msgid(s) == optional(s, TRUE)

\* the steps of a tuple that read a header token
KeepHostname(r) == IF r.ok THEN Kept(r, hostname(r.rest)) ELSE Err
KeepAppname(r) == IF r.ok THEN Kept(r, appname(r.rest)) ELSE Err
KeepProcid(r) == IF r.ok THEN Kept(r, procid(r.rest)) ELSE Err
KeepMsgid(r) == IF r.ok THEN Kept(r, msgid(r.rest)) ELSE Err

\* ------------------------------------------------------------------------
\* chrono: calendar arithmetic for DateTime<FixedOffset>.  A timestamp is
\* [utc, nanos, off]: the instant in seconds since 1970-01-01T00:00:00Z, the
\* sub-second part and the offset east of UTC in seconds.
\* ------------------------------------------------------------------------
IsLeap(y) == (y % 4 = 0 /\ y % 100 # 0) \/ y % 400 = 0

DaysInMonth(y, m) ==
  IF m = 2 THEN (IF IsLeap(y) THEN 29 ELSE 28)
  ELSE IF m \in {4, 6, 9, 11} THEN 30 ELSE 31

\* days since 1970-01-01 of a civil date
DaysFromCivil(y, m, d) ==
  LET yy == IF m <= 2 THEN y - 1 ELSE y
      era == yy \div 400
      yoe == yy - era * 400
      mp == IF m > 2 THEN m - 3 ELSE m + 9
      doy == (153 * mp + 2) \div 5 + d - 1
      doe == yoe * 365 + yoe \div 4 - yoe \div 100 + doy
  IN  era * 146097 + doe - 719468

\* the civil date of a day number
CivilFromDays(z) ==
  LET zz == z + 719468
      era == zz \div 146097
      doe == zz - era * 146097
      yoe == (doe - doe \div 1460 + doe \div 36524 - doe \div 146096) \div 365
      doy == doe - (365 * yoe + yoe \div 4 - yoe \div 100)
      mp == (5 * doy + 2) \div 153
      d == doy - (153 * mp + 2) \div 5 + 1
      m == IF mp < 10 THEN mp + 3 ELSE mp - 9
      y == yoe + era * 400
  IN  [y |-> IF m <= 2 THEN y + 1 ELSE y, m |-> m, d |-> d]

\* NaiveDate::from_ymd_opt(..).and_hms_opt(..): seconds of the naive date and
\* time counted as if it were UTC, or None when the date or time does not exist
NaiveSeconds(y, m, d, h, mi, sec) ==
  IF m >= 1 /\ m <= 12 /\ d >= 1 /\ d <= DaysInMonth(y, m)
     /\ h <= 23 /\ mi <= 59 /\ sec <= 59
  THEN Some(DaysFromCivil(y, m, d) * 86400 + h * 3600 + mi * 60 + sec)
  ELSE None

\* DateTime equality compares instants, not offsets
TsEq(a, b) ==
  IF IsSome(a) /\ IsSome(b)
  THEN Unwrap(a).utc = Unwrap(b).utc /\ Unwrap(a).nanos = Unwrap(b).nanos
  ELSE IsNone(a) /\ IsNone(b)

Pad2(n) == <<DigitChar(n \div 10), DigitChar(n % 10)>>
Pad3(n) == <<DigitChar(n \div 100)>> \o Pad2(n % 100)
Pad4(n) == Pad2(n \div 100) \o Pad2(n % 100)

\* DateTime::to_rfc3339: local date and time, fraction when there is one
\* (3, 6 or 9 digits), then the offset as +HH:MM
to_rfc3339(ts) ==
  LET local == ts.utc + ts.off
      days == local \div 86400
      secs == local % 86400
      c == CivilFromDays(days)
      frac == IF ts.nanos = 0 THEN << >>
              ELSE IF ts.nanos % 1000000 = 0 THEN <<".">> \o Pad3(ts.nanos \div 1000000)
              ELSE IF ts.nanos % 1000 = 0
                THEN <<".">> \o Pad3(ts.nanos \div 1000000) \o Pad3((ts.nanos \div 1000) % 1000)
              ELSE <<".">> \o Pad3(ts.nanos \div 1000000) \o Pad3((ts.nanos \div 1000) % 1000)
                          \o Pad3(ts.nanos % 1000)
      a == IF ts.off < 0 THEN 0 - ts.off ELSE ts.off
  IN  Pad4(c.y) \o <<"-">> \o Pad2(c.m) \o <<"-">> \o Pad2(c.d) \o <<"T">>
      \o Pad2(secs \div 3600) \o <<":">> \o Pad2((secs \div 60) % 60) \o <<":">>
      \o Pad2(secs % 60) \o frac
      \o <<IF ts.off < 0 THEN "-" ELSE "+">> \o Pad2(a \div 3600) \o <<":">>
      \o Pad2((a \div 60) % 60)

AllDigits(s) == Len(s) > 0 /\ \A i \in 1..Len(s) : s[i] \in Digits

\* the first nine digits of a fraction, as nanoseconds
FracNanos(ds) ==
  LET n == IF Len(ds) > 9 THEN 9 ELSE Len(ds)
      pad == [i \in 1..(9 - n) |-> "0"]
  IN  DigitsValue(Take(ds, n) \o pad)

\* the zone of an RFC3339 stamp: Z, or a sign and HH:MM; None when malformed
ZoneOffset(z) ==
  IF z = <<"Z">> THEN Some(0)
  ELSE IF Len(z) = 6 /\ z[1] \in {"+", "-"} /\ AllDigits(SubSeq(z, 2, 3))
          /\ z[4] = ":" /\ AllDigits(SubSeq(z, 5, 6))
          /\ DigitsValue(SubSeq(z, 5, 6)) <= 59
    THEN LET o == DigitsValue(SubSeq(z, 2, 3)) * 3600 + DigitsValue(SubSeq(z, 5, 6)) * 60
         IN  Some(IF z[1] = "-" THEN 0 - o ELSE o)
  ELSE None

\* chrono::DateTime::parse_from_rfc3339 on a whole token
parse_from_rfc3339(t) ==
  IF Len(t) >= 20 /\ AllDigits(SubSeq(t, 1, 4)) /\ t[5] = "-"
     /\ AllDigits(SubSeq(t, 6, 7)) /\ t[8] = "-" /\ AllDigits(SubSeq(t, 9, 10))
     /\ t[11] = "T" /\ AllDigits(SubSeq(t, 12, 13)) /\ t[14] = ":"
     /\ AllDigits(SubSeq(t, 15, 16)) /\ t[17] = ":" /\ AllDigits(SubSeq(t, 18, 19))
  THEN LET after == Drop(t, 19)
           fl == IF after[1] = "." THEN PrefixIn(Drop(after, 1), Digits) ELSE 0
           zone == IF after[1] = "." THEN Drop(after, fl + 1) ELSE after
           off == ZoneOffset(zone)
           naive == NaiveSeconds(DigitsValue(SubSeq(t, 1, 4)), DigitsValue(SubSeq(t, 6, 7)),
                                 DigitsValue(SubSeq(t, 9, 10)), DigitsValue(SubSeq(t, 12, 13)),
                                 DigitsValue(SubSeq(t, 15, 16)), DigitsValue(SubSeq(t, 18, 19)))
       IN  IF (after[1] = "." /\ fl = 0) \/ IsNone(off) \/ IsNone(naive) THEN None
           ELSE Some([utc |-> Unwrap(naive) - Unwrap(off),
                      nanos |-> IF fl = 0 THEN 0 ELSE FracNanos(SubSeq(after, 2, fl + 1)),
                      off |-> Unwrap(off)])
  ELSE None

\* ------------------------------------------------------------------------
\* timestamp.rs
\* ------------------------------------------------------------------------
UpperLetters == <<"A", "B", "C", "D", "E", "F", "G", "J", "L", "M", "N", "O", "P", "R",
                  "S", "T", "U", "V", "Y">>
LowerLetters == <<"a", "b", "c", "d", "e", "f", "g", "j", "l", "m", "n", "o", "p", "r",
                  "s", "t", "u", "v", "y">>

\* str::to_lowercase, on the letters month names are written with
ToLower(c) ==
  IF \E i \in 1..Len(UpperLetters) : UpperLetters[i] = c
  THEN LowerLetters[CHOOSE i \in 1..Len(UpperLetters) : UpperLetters[i] = c]
  ELSE c

MonthNames == << <<"j", "a", "n">>, <<"f", "e", "b">>, <<"m", "a", "r">>, <<"a", "p", "r">>,
                 <<"m", "a", "y">>, <<"j", "u", "n">>, <<"j", "u", "l">>, <<"a", "u", "g">>,
                 <<"s", "e", "p">>, <<"o", "c", "t">>, <<"n", "o", "v">>, <<"d", "e", "c">> >>

\* map_res(take(3), parse_month)
parse_month(s) ==
  IF Len(s) < 3 THEN Err
  ELSE LET low == [i \in 1..3 |-> ToLower(s[i])]
       IN  IF \E m \in 1..12 : MonthNames[m] = low
           THEN Ok(Drop(s, 3), CHOOSE m \in 1..12 : MonthNames[m] = low)
           ELSE Err

\* digits ":" digits ":" digits opt(":"), the tail shared by both 3164 forms
hms(s) ==
  LET h == KeepDigits(Ok(s, << >>), U32MaxDigits)
      c1 == SkipTag(h, <<":">>)
      mi == KeepDigits(c1, U32MaxDigits)
      c2 == SkipTag(mi, <<":">>)
      sec == KeepDigits(c2, U32MaxDigits)
  IN  IF sec.ok THEN Ok(OptColon(sec.rest), sec.val) ELSE Err

KeepHms(r) == IF r.ok THEN Kept(r, hms(r.rest)) ELSE Err

\* MMM DD HH:MM:SS, the value is the IncompleteDate
timestamp_3164_no_year(s) ==
  LET mon == Kept(Ok(s, << >>), parse_month(s))
      s1 == SkipSpace1(mon)
      day == KeepDigits(s1, U32MaxDigits)
      s2 == SkipSpace1(day)
      t == KeepHms(s2)
  IN  IF t.ok THEN Ok(t.rest, <<t.val[1], t.val[2]>> \o t.val[3]) ELSE Err

\* MMM DD YYYY HH:MM:SS, the value is the NaiveDateTime in seconds, NaiveOf
\* the values (month, day, year, (hour, minute, second)); a date or time that
\* does not exist fails the parser
NaiveOf(v) == NaiveSeconds(v[3], v[1], v[2], v[4][1], v[4][2], v[4][3])

timestamp_3164_with_year(s) ==
  LET mon == Kept(Ok(s, << >>), parse_month(s))
      s1 == SkipSpace1(mon)
      day == KeepDigits(s1, U32MaxDigits)
      s2 == SkipSpace1(day)
      year == KeepDigits(s2, I32MaxDigits)
      s3 == SkipSpace1(year)
      t == KeepHms(s3)
  IN  IF t.ok THEN MapOpt(t.rest, NaiveOf(t.val)) ELSE Err

\* the caller's year resolution functions (tests.rs with_year and the
\* constant closures of the unit tests)
Resolvers == {"with_year", "y2019"}
get_year(resolver, idate) ==
  IF resolver = "with_year" THEN (IF idate[1] = 12 THEN 2019 ELSE 2020) ELSE 2019

\* make_timestamp moving a date that does not exist in the resolved year to
\* the first day of the next month
make_timestamp_Rolled(idate, resolver, tz, localOff) ==
  LET year == get_year(resolver, idate)
      naive == NaiveSeconds(year, idate[1], idate[2], idate[3], idate[4], idate[5])
      rolled == NaiveSeconds(year, idate[1] + 1, 1, idate[3], idate[4], idate[5])
      off == IF IsSome(tz) THEN Unwrap(tz) ELSE localOff
  IN  IF IsSome(naive)
      THEN Some([utc |-> Unwrap(naive) - off, nanos |-> 0, off |-> off])
      ELSE IF IsSome(rolled)
        THEN Some([utc |-> Unwrap(rolled) - off, nanos |-> 0, off |-> off])
      ELSE None

\* make_timestamp: the written time is local time at the offset tz, or at
\* the system's offset when tz is None
make_timestamp(idate, resolver, tz, localOff) ==
  LET year == get_year(resolver, idate)
      naive == NaiveSeconds(year, idate[1], idate[2], idate[3], idate[4], idate[5])
      off == IF IsSome(tz) THEN Unwrap(tz) ELSE localOff
  IN  IF IsSome(naive)
      THEN Some([utc |-> Unwrap(naive) - off, nanos |-> 0, off |-> off])
      ELSE None

\* map_res(take_until(" "), parse_from_rfc3339)
timestamp_3339(s) ==
  LET tok == TakeUntil(s, " ")
  IN  IF tok.ok THEN MapOpt(tok.rest, parse_from_rfc3339(tok.val)) ELSE Err

KeepTimestamp3339(r) == IF r.ok THEN Kept(r, timestamp_3339(r.rest)) ELSE Err

\* alt_3164 resolving the year before any form has matched
alt_3164_EagerYear(ny, wy, r3, resolver, tz, localOff) ==
  LET made == IF ny.ok THEN make_timestamp(ny.val, resolver, tz, localOff) ELSE None
  IN  IF IsSome(made) THEN [ok |-> TRUE, rest |-> ny.rest, val |-> Unwrap(made), calls |-> 1]
      ELSE IF wy.ok
        THEN [ok |-> TRUE, rest |-> wy.rest, calls |-> 1,
              val |-> IF IsSome(tz)
                      THEN [utc |-> wy.val, nanos |-> 0, off |-> Unwrap(tz)]
                      ELSE [utc |-> wy.val - localOff, nanos |-> 0, off |-> localOff]]
      ELSE IF r3.ok THEN [ok |-> TRUE, rest |-> r3.rest, val |-> r3.val, calls |-> 1]
      ELSE [ok |-> FALSE, rest |-> << >>, val |-> << >>, calls |-> 1]

\* alt((no year, with year, rfc3339)) over the results ny, wy and r3 of the
\* three forms; calls counts the invocations of the year resolver
alt_3164(ny, wy, r3, resolver, tz, localOff) ==
  LET made == IF ny.ok THEN make_timestamp(ny.val, resolver, tz, localOff) ELSE None
      calls == IF ny.ok THEN 1 ELSE 0
  IN  IF IsSome(made) THEN [ok |-> TRUE, rest |-> ny.rest, val |-> Unwrap(made), calls |-> calls]
      ELSE IF wy.ok
        THEN [ok |-> TRUE, rest |-> wy.rest, calls |-> calls,
              val |-> IF IsSome(tz)
                      THEN [utc |-> wy.val, nanos |-> 0, off |-> Unwrap(tz)]
                      ELSE [utc |-> wy.val - localOff, nanos |-> 0, off |-> localOff]]
      ELSE IF r3.ok THEN [ok |-> TRUE, rest |-> r3.rest, val |-> r3.val, calls |-> calls]
      ELSE [ok |-> FALSE, rest |-> << >>, val |-> << >>, calls |-> calls]

timestamp_3164(s, resolver, tz, localOff) ==
  alt_3164(timestamp_3164_no_year(s), timestamp_3164_with_year(s), timestamp_3339(s),
           resolver, tz, localOff)

\* ------------------------------------------------------------------------
\* structured_data.rs
\* ------------------------------------------------------------------------
\* nom escaped(take_while1(not \ and not "), '\\', anychar): the number of
\* characters consumed from s, having consumed i of them; -1 is the error
RECURSIVE EscapedLen(_, _)
EscapedLen(s, i) ==
  IF i = Len(s) THEN Len(s)
  ELSE IF s[i + 1] = "\\" THEN (IF i + 1 = Len(s) THEN -1 ELSE EscapedLen(s, i + 2))
  ELSE IF s[i + 1] = "\"" THEN (IF i = 0 THEN -1 ELSE i)
  ELSE EscapedLen(s, i + PrefixNotIn(Drop(s, i), {"\\", "\""}))

\* a quoted value; the raw text between the quotes is kept with its escapes
param_value(s) ==
  IF StartsWith(s, <<"\"", "\"">>) THEN Ok(Drop(s, 2), << >>)
  ELSE IF ~StartsWith(s, <<"\"">>) THEN Err
  ELSE LET n == EscapedLen(Tail(s), 0)
       IN  IF n >= 0 /\ StartsWith(Drop(s, n + 1), <<"\"">>)
           THEN Ok(Drop(s, n + 2), SubSeq(s, 2, n + 1))
           ELSE Err

\* name="value"
param(s) ==
  LET n == PrefixNotIn(s, {"]", "="})
      v == IF n > 0 /\ StartsWith(Drop(s, n), <<"=">>)
           THEN param_value(Space0(Drop(s, n + 1))) ELSE Err
  IN  IF v.ok THEN Ok(v.rest, <<Take(s, n), v.val>>) ELSE Err

\* separated_list0(tag(" "), param): ParamsStep goes on from the result p of
\* one more param, ParamsMore reads the separator and the param after it
RECURSIVE ParamsMore(_, _)
ParamsStep(s, acc, p) ==
  IF p.ok THEN ParamsMore(p.rest, Append(acc, p.val)) ELSE Ok(s, acc)

ParamsMore(s, acc) ==
  ParamsStep(s, acc, IF StartsWith(s, <<" ">>) THEN param(Tail(s)) ELSE Err)

ParamList(s) == ParamsStep(s, << >>, param(s))

\* [id name="value" ...]; the value is Some(element). StrictClose ends the
\* element whose id and params were read
StrictClose(id, ps) ==
  IF ps.ok /\ StartsWith(ps.rest, <<"]">>)
  THEN Ok(Tail(ps.rest), Some([id |-> id, params |-> ps.val]))
  ELSE Err

structured_datum_strict(s) ==
  IF ~StartsWith(s, <<"[">>) THEN Err
  ELSE LET n == PrefixNotIn(Tail(s), Whitespace \cup {"]", "="})
       IN  IF n = 0 THEN Err
           ELSE StrictClose(SubSeq(s, 2, n + 1), ParamList(Space0(Drop(s, n + 1))))

\* the strict element, or else anything up to the first ], which gives None
structured_datum_permissive(s) ==
  LET strict == structured_datum_strict(s)
      body == IF StartsWith(s, <<"[">>) THEN TakeUntil(Tail(s), "]") ELSE Err
  IN  IF strict.ok THEN strict
      ELSE IF body.ok THEN Ok(Drop(body.rest, 1), None)
      ELSE Err

structured_datum(allow_failure, s) ==
  IF allow_failure THEN structured_datum_permissive(s) ELSE structured_datum_strict(s)

\* many1 with filter_map: elements that are None are left out. DatumStep goes
\* on from the result d of one more element, Many1 demands the first one
RECURSIVE DatumMore(_, _, _)
\* DatumStep ending the run at the first span that gave no element
DatumStep_EndsAtDropped(allow_failure, s, acc, d) ==
  IF d.ok /\ d.val # None THEN DatumMore(allow_failure, d.rest, acc \o d.val) ELSE Ok(s, acc)

DatumStep(allow_failure, s, acc, d) ==
  IF d.ok THEN DatumMore(allow_failure, d.rest, acc \o d.val) ELSE Ok(s, acc)

DatumMore(allow_failure, s, acc) ==
  DatumStep(allow_failure, s, acc, structured_datum(allow_failure, s))

Many1(allow_failure, d) ==
  IF d.ok THEN DatumMore(allow_failure, d.rest, d.val) ELSE Err

\* "-" for no elements, or one or more elements
structured_data_optional(allow_failure, s) ==
  IF StartsWith(s, <<"-">>) THEN Ok(Tail(s), << >>)
  ELSE Many1(allow_failure, structured_datum(allow_failure, s))

\* structured_data refusing an element that does not match the grammar
structured_data_Strict(s) == structured_data_optional(FALSE, s)

structured_data(s) == structured_data_optional(TRUE, s)

\* Display of an element: [id name="value" ...]
RECURSIVE FmtParams(_)
FmtParams(ps) ==
  IF Len(ps) = 0 THEN << >>
  ELSE <<" ">> \o ps[1][1] \o <<"=", "\"">> \o ps[1][2] \o <<"\"">> \o FmtParams(Tail(ps))

FmtElement(e) == <<"[">> \o e.id \o FmtParams(e.params) \o <<"]">>

RECURSIVE FmtElements(_)
FmtElements(es) ==
  IF Len(es) = 0 THEN << >> ELSE FmtElement(es[1]) \o FmtElements(Tail(es))

\* the order of str is the order of its bytes: Ascii lists, in that order,
\* the characters the compared names and values are written with
Ascii ==
  <<"0", "1", "2", "3", "4", "5", "6", "7", "8", "9", "a", "b", "c", "d", "e", "f", "g",
    "h", "i", "j", "k", "l", "m", "n", "o", "p", "q", "r", "s", "t", "u", "v", "w", "x",
    "y", "z">>

CharCode(c) == CHOOSE i \in 1..Len(Ascii) : Ascii[i] = c

\* a < b for str
StrLess(a, b) ==
  LET diff == {i \in 1..Len(a) : i <= Len(b) /\ a[i] # b[i]}
  IN  IF diff = {} THEN Len(a) < Len(b)
      ELSE CharCode(a[SetMin(diff)]) < CharCode(b[SetMin(diff)])

\* p <= q for (S, S)
PairLeq(p, q) == IF p[1] # q[1] THEN StrLess(p[1], q[1]) ELSE ~StrLess(q[2], p[2])

\* Vec::sort on the params
RECURSIVE Insert(_, _)
Insert(x, ps) ==
  IF Len(ps) = 0 THEN <<x>>
  ELSE IF PairLeq(x, ps[1]) THEN <<x>> \o ps
  ELSE <<ps[1]>> \o Insert(x, Tail(ps))

RECURSIVE SortParams(_)
SortParams(ps) == IF Len(ps) = 0 THEN << >> ELSE Insert(ps[1], SortParams(Tail(ps)))

\* iter().zip(..).all(..): zip ends with the shorter of the two lists
ZipAll(params1, params2) ==
  \A i \in 1..Len(params1) :
     i <= Len(params2) => (params1[i][1] = params2[i][1] /\ params1[i][2] = params2[i][2])

\* impl PartialEq for StructuredElement
ElementEq(a, b) ==
  IF a.id # b.id THEN FALSE ELSE ZipAll(SortParams(a.params), SortParams(b.params))

\* == on Vec<StructuredElement>
ElementsEq(x, y) == Len(x) = Len(y) /\ \A i \in 1..Len(x) : ElementEq(x[i], y[i])

\* the loop of ParamsIter::next without the arm for \n
RECURSIVE trimmed_NoNewline(_, _)
trimmed_NoNewline(value, escaped) ==
  IF Len(value) = 0 THEN << >>
  ELSE IF value[1] = "\\" /\ ~escaped THEN trimmed_NoNewline(Tail(value), TRUE)
  ELSE IF value[1] \notin {"\"", "]", "\\"} /\ escaped
    THEN <<"\\", value[1]>> \o trimmed_NoNewline(Tail(value), FALSE)
  ELSE <<value[1]>> \o trimmed_NoNewline(Tail(value), FALSE)

\* the loop of ParamsIter::next over the characters of a raw value: what is
\* pushed to trimmed from value on, escaped telling whether the character
\* before was an escaping backslash
RECURSIVE trimmed(_, _)
trimmed(value, escaped) ==
  IF Len(value) = 0 THEN << >>
  ELSE IF value[1] = "\\" /\ ~escaped THEN trimmed(Tail(value), TRUE)
  ELSE IF value[1] = "n" /\ escaped THEN <<"\n">> \o trimmed(Tail(value), FALSE)
  ELSE IF value[1] \notin {"\"", "]", "\\"} /\ escaped
    THEN <<"\\", value[1]>> \o trimmed(Tail(value), FALSE)
  ELSE <<value[1]>> \o trimmed(Tail(value), FALSE)

\* StructuredElement::params, collected: the keys with the decoded values
params(e) ==
  [i \in 1..Len(e.params) |-> <<e.params[i][1], trimmed(e.params[i][2], FALSE)>>]

\* ------------------------------------------------------------------------
\* procid.rs
\* ------------------------------------------------------------------------
PID(n) == [kind |-> "PID", pid |-> n, name |-> << >>]
Name(s) == [kind |-> "Name", pid |-> 0, name |-> s]

I32Max == 2147483647
I32MinMagnitude == <<"2", "1", "4", "7", "4", "8", "3", "6", "4", "8">>

\* str::parse::<i32>: an optional sign and digits, the whole string
ParseI32(s) ==
  LET signed == Len(s) > 0 /\ s[1] \in {"+", "-"}
      ds == IF signed THEN Tail(s) ELSE s
      d == StripZeros(ds)
  IN  IF ~AllDigits(ds) THEN None
      ELSE IF DigitsLeq(d, I32MaxDigits)
        THEN Some(IF signed /\ s[1] = "-" THEN 0 - DigitsValue(d) ELSE DigitsValue(d))
      ELSE IF signed /\ s[1] = "-" /\ d = I32MinMagnitude THEN Some(0 - I32Max - 1)
      ELSE None

\* ProcIdFrom reading the digits a token starts with, as atoi does
ProcIdFrom_LeadingDigits(s) ==
  LET n == PrefixIn(s, Digits)
  IN  IF n > 0 /\ DigitsLeq(StripZeros(Take(s, n)), I32MaxDigits)
      THEN PID(DigitsValue(Take(s, n))) ELSE Name(s)

\* impl From<&str> for ProcId<&str>
ProcIdFrom(s) ==
  LET n == ParseI32(s) IN IF IsSome(n) THEN PID(Unwrap(n)) ELSE Name(s)

RECURSIVE FmtNat(_)
FmtNat(n) == IF n < 10 THEN <<DigitChar(n)>> ELSE FmtNat(n \div 10) \o <<DigitChar(n % 10)>>

\* Display of integers
FmtInt(n) ==
  IF n >= 0 THEN FmtNat(n)
  ELSE IF n = 0 - I32Max - 1 THEN <<"-">> \o I32MinMagnitude
  ELSE <<"-">> \o FmtNat(0 - n)

\* impl Display for ProcId
FmtProcId(p) == IF p.kind = "PID" THEN FmtInt(p.pid) ELSE p.name

\* ------------------------------------------------------------------------
\* message.rs: the Message
\* ------------------------------------------------------------------------
RFC3164 == <<"RFC3164">>
RFC5424(v) == <<"RFC5424", v>>

Message(protocol, p, ts, host, app, pid, mid, sd, msg) ==
  [protocol |-> protocol, facility |-> p.facility, severity |-> p.severity,
   timestamp |-> ts, hostname |-> host, appname |-> app, procid |-> pid,
   msgid |-> mid, structured_data |-> sd, msg |-> msg]

\* impl PartialEq for Message
MessageEq(a, b) ==
  /\ a.facility = b.facility
  /\ a.severity = b.severity
  /\ TsEq(a.timestamp, b.timestamp)
  /\ a.hostname = b.hostname
  /\ a.appname = b.appname
  /\ a.procid = b.procid
  /\ a.msgid = b.msgid
  /\ ElementsEq(a.structured_data, b.structured_data)
  /\ a.msg = b.msg

\* ------------------------------------------------------------------------
\* rfc3164.rs
\* ------------------------------------------------------------------------
\* the tag: a process name followed by a pid in []
systag(s) ==
  LET n == PrefixNotIn(s, Whitespace \cup {":", "["})
      open == Tag(Drop(s, n), <<"[">>)
      m == IF open.ok THEN PrefixNotIn(open.rest, {"]"}) ELSE 0
      close == IF m > 0 THEN Tag(Drop(open.rest, m), <<"]">>) ELSE Err
  IN  IF close.ok THEN Ok(close.rest, <<Take(s, n), Take(open.rest, m)>>) ELSE Err

\* whether systag matched the whole token
IsSystag(t) == systag(t).ok /\ systag(t).rest = << >>

\* resolve_host_and_tag taking the name of a lone name[pid] for the hostname
resolve_host_and_tag_NameAsHost(field1, field2) ==
  IF IsSome(field1) /\ IsSome(field2) /\ IsSome(Unwrap(field2))
  THEN LET tag == Unwrap(Unwrap(field2))
       IN  IF IsSystag(tag)
           THEN <<Unwrap(field1), Some(systag(tag).val[1]), Some(systag(tag).val[2])>>
           ELSE <<Unwrap(field1), Some(tag), None>>
  ELSE IF IsSome(field1) /\ IsSome(Unwrap(field1)) /\ IsNone(field2)
  THEN LET field == Unwrap(Unwrap(field1))
       IN  IF IsSystag(field)
           THEN <<Some(systag(field).val[1]), None, Some(systag(field).val[2])>>
           ELSE <<Some(field), None, None>>
  ELSE <<None, None, None>>

\* resolve_host_and_tag taking a lone token for the hostname by its position
resolve_host_and_tag_Positional(field1, field2) ==
  IF IsSome(field1) /\ IsSome(field2) /\ IsSome(Unwrap(field2))
  THEN LET tag == Unwrap(Unwrap(field2))
       IN  IF IsSystag(tag)
           THEN <<Unwrap(field1), Some(systag(tag).val[1]), Some(systag(tag).val[2])>>
           ELSE <<Unwrap(field1), Some(tag), None>>
  ELSE IF IsSome(field1) /\ IsSome(Unwrap(field1)) /\ IsNone(field2)
  THEN <<Unwrap(field1), None, None>>
  ELSE <<None, None, None>>

\* field1 and field2 are Option<Option<&str>>; the result is
\* (hostname, appname, procid)
resolve_host_and_tag(field1, field2) ==
  IF IsSome(field1) /\ IsSome(field2) /\ IsSome(Unwrap(field2))
  THEN LET tag == Unwrap(Unwrap(field2))
       IN  IF IsSystag(tag)
           THEN <<Unwrap(field1), Some(systag(tag).val[1]), Some(systag(tag).val[2])>>
           ELSE <<Unwrap(field1), Some(tag), None>>
  ELSE IF IsSome(field1) /\ IsSome(Unwrap(field1)) /\ IsNone(field2)
  THEN LET field == Unwrap(Unwrap(field1))
       IN  IF IsSystag(field)
           THEN <<None, Some(systag(field).val[1]), Some(systag(field).val[2])>>
           ELSE <<Some(field), None, None>>
  ELSE IF IsNone(field1) /\ IsSome(field2) /\ IsSome(Unwrap(field2))
  THEN LET field == Unwrap(Unwrap(field2))
       IN  IF IsSystag(field)
           THEN <<None, Some(systag(field).val[1]), Some(systag(field).val[2])>>
           ELSE <<Some(field), None, None>>
  ELSE <<None, None, None>>

\* nom opt over the result f of a parser on s: Some(value) or None
Opt(s, f) == IF f.ok THEN Ok(f.rest, Some(f.val)) ELSE Ok(s, None)

\* opt(preceded(tag(" "), hostname)) and opt(preceded(tag(" "), tagname))
OptHostname(s) == Opt(s, IF StartsWith(s, <<" ">>) THEN hostname(Tail(s)) ELSE Err)
\* OptTagname reading the tag after any number of spaces
OptTagname_AnySpaces(s) ==
  Opt(s, IF StartsWith(s, <<" ">>) THEN tagname(Space0(s)) ELSE Err)

OptTagname(s) == Opt(s, IF StartsWith(s, <<" ">>) THEN tagname(Tail(s)) ELSE Err)

\* Message3164 putting the process id of the tag in the msgid as well
Message3164_PidAsMsgid(p, ts, field1, field2, body, sd) ==
  LET hap == resolve_host_and_tag(field1.val, field2.val)
  IN  Message(RFC3164, p.val, Some(ts.val), hap[1], hap[2],
              IF IsSome(hap[3]) THEN Some(ProcIdFrom(Unwrap(hap[3]))) ELSE None,
              hap[3], IF sd.ok THEN sd.val ELSE << >>,
              Space0(IF sd.ok THEN sd.rest ELSE body))

\* the Message the RFC3164 grammar makes of its parsed parts
Message3164(p, ts, field1, field2, body, sd) ==
  LET hap == resolve_host_and_tag(field1.val, field2.val)
  IN  Message(RFC3164, p.val, Some(ts.val), hap[1], hap[2],
              IF IsSome(hap[3]) THEN Some(ProcIdFrom(Unwrap(hap[3]))) ELSE None,
              None, IF sd.ok THEN sd.val ELSE << >>,
              Space0(IF sd.ok THEN sd.rest ELSE body))

\* Fields3164 reading the structured data as the RFC5424 grammar does
Fields3164_Permissive(p, ts) ==
  LET field1 == OptHostname(ts.rest)
      field2 == OptTagname(field1.rest)
      body == Space0(OptColon(Space0(field2.rest)))
      sd == structured_data_optional(TRUE, body)
  IN  Message3164(p, ts, field1, field2, body, sd)

\* the RFC3164 grammar after the priority p and the timestamp ts: two
\* optional fields, an optional colon, optional structured data, the message
Fields3164(p, ts) ==
  LET field1 == OptHostname(ts.rest)
      field2 == OptTagname(field1.rest)
      body == Space0(OptColon(Space0(field2.rest)))
      sd == structured_data_optional(FALSE, body)
  IN  Message3164(p, ts, field1, field2, body, sd)

\* the RFC3164 grammar; calls counts the invocations of the year resolver
Timestamp3164(p, ts) ==
  [ok |-> ts.ok, rest |-> << >>, calls |-> ts.calls,
   val |-> IF ts.ok THEN Fields3164(p, ts) ELSE << >>]

Parse3164(input, resolver, tz, localOff) ==
  Timestamp3164(pri(input), timestamp_3164(Space0(pri(input).rest), resolver, tz, localOff))

\* ------------------------------------------------------------------------
\* rfc5424.rs: the header
\* ------------------------------------------------------------------------
\* pri version ws timestamp ws hostname ws appname ws procid ws msgid; the
\* value is the Header, HeaderOf the values in this order
HeaderOf(v) ==
  [pri |-> v[1], version |-> v[2], timestamp |-> v[3], hostname |-> v[4],
   appname |-> v[5], procid |-> v[6], msgid |-> v[7]]

Header5424(s) ==
  LET p == Kept(Ok(s, << >>), pri(s))
      version == KeepDigits(p, U32MaxDigits)
      s1 == SkipSpace1(version)
      ts == KeepTimestamp3339(s1)
      s2 == SkipSpace1(ts)
      host == KeepHostname(s2)
      s3 == SkipSpace1(host)
      app == KeepAppname(s3)
      s4 == SkipSpace1(app)
      pid == KeepProcid(s4)
      s5 == SkipSpace1(pid)
      mid == KeepMsgid(s5)
  IN  IF mid.ok THEN Ok(mid.rest, HeaderOf(mid.val)) ELSE Err

\* ------------------------------------------------------------------------
\* lib.rs: the dispatch
\* ------------------------------------------------------------------------
\* Message5424 leaving the protocol tag at RFC3164
Message5424_Untagged(h, sd) ==
  IF sd.ok
  THEN Ok(<< >>, Message(RFC3164, h.val.pri, Some(h.val.timestamp),
                         h.val.hostname, h.val.appname,
                         IF IsSome(h.val.procid)
                         THEN Some(ProcIdFrom(Unwrap(h.val.procid))) ELSE None,
                         h.val.msgid, sd.val, Space0(sd.rest)))
  ELSE Err

\* the Message parse makes of the header h and the result sd of the
\* structured data after it; the ? on structured_data leaves parse with the
\* error
Message5424(h, sd) ==
  IF sd.ok
  THEN Ok(<< >>, Message(RFC5424(h.val.version), h.val.pri, Some(h.val.timestamp),
                         h.val.hostname, h.val.appname,
                         IF IsSome(h.val.procid)
                         THEN Some(ProcIdFrom(Unwrap(h.val.procid))) ELSE None,
                         h.val.msgid, sd.val, Space0(sd.rest)))
  ELSE Err

\* the Ok arm of parse: structured data and the message after the header
Finish5424(h) == Message5424(h, structured_data(Space0(h.rest)))

\* the RFC5424 grammar as a whole: the header, then the rest of the line
Parse5424(s) ==
  LET h == Header5424(s) IN IF h.ok THEN Finish5424(h) ELSE Err

\* Fallback keeping only the trimmed input
Fallback_Trimmed(s) == Message(RFC3164, NoPri, None, None, None, None, None, << >>, Trim(s))

\* the Message parse_message_with_year returns when parse failed
Fallback(s) == Message(RFC3164, NoPri, None, None, None, None, None, << >>, s)

\* parse followed by unwrap_or, as one function of the input: the Message
\* parse_message_with_year returns
parse_message_with_year(s, e) ==
  LET h == Header5424(s)
      m5 == Finish5424(h)
      m3 == Parse3164(s, e.resolver, e.tz, e.localOff)
  IN  IF h.ok THEN (IF m5.ok THEN m5.val ELSE Fallback(s))
      ELSE IF m3.ok THEN m3.val
      ELSE Fallback(s)

Variants == {"Either", "RFC3164", "RFC5424"}

\* the grammar a call starts with
FirstGrammar(v) == IF v = "RFC3164" THEN "TryRFC3164" ELSE "TryRFC5424"

\* After5424Failure going on to RFC3164 whatever the variant
After5424Failure_Always3164(v) == "TryRFC3164"

\* where the dispatcher goes when the RFC5424 header did not match
After5424Failure(v) == IF v = "Either" THEN "TryRFC3164" ELSE "GiveUp"

\* the one error value of the exact entry points
GenericParseError == "unable to parse input as valid syslog message"

NoResult == [kind |-> "none", msg |-> << >>, error |-> ""]
MsgResult(m) == [kind |-> "msg", msg |-> m, error |-> ""]
ErrResult(e) == [kind |-> "err", msg |-> << >>, error |-> e]

\* ------------------------------------------------------------------------
\* message.rs: Display
\* ------------------------------------------------------------------------
LOG_SYSLOG == 5
SEV_DEBUG == 7

OrDash(o) == IF IsSome(o) THEN Unwrap(o) ELSE <<"-">>

\* <pri>version timestamp host app procid msgid sd msg
Display(m) ==
  <<"<">>
  \o FmtInt(compose_pri(IF IsSome(m.facility) THEN Unwrap(m.facility) ELSE LOG_SYSLOG,
                     IF IsSome(m.severity) THEN Unwrap(m.severity) ELSE SEV_DEBUG))
  \o <<">">>
  \o (IF m.protocol = RFC3164 THEN << >> ELSE FmtInt(m.protocol[2]))
  \o <<" ">> \o to_rfc3339(Unwrap(m.timestamp))
  \o <<" ">> \o OrDash(m.hostname)
  \o <<" ">> \o OrDash(m.appname)
  \o <<" ">> \o (IF IsSome(m.procid) THEN FmtProcId(Unwrap(m.procid)) ELSE <<"-">>)
  \o <<" ">> \o OrDash(m.msgid)
  \o <<" ">>
  \o (IF Len(m.structured_data) = 0
      THEN (IF m.protocol = RFC3164 THEN << >> ELSE <<"-">>)
      ELSE FmtElements(m.structured_data))
  \o <<" ">> \o m.msg

\* ------------------------------------------------------------------------
\* The lines the model parses.  A line is written from a shape, the record
\* of its parts, so that a property can speak of the parts of the line.
\* ------------------------------------------------------------------------
\* the longest run of white space put around a line
MaxPad == 1

Pads == UNION {[1..n -> {" ", "\n"}] : n \in 0..MaxPad}

TsNoYear == <<"O", "c", "t", " ", "1", "1", " ", "2", "2", ":", "1", "4", ":", "1", "5">>
TsFeb29 == <<"F", "e", "b", " ", "2", "9", " ", "2", "2", ":", "1", "4", ":", "1", "5">>
TsWithYear == <<"O", "c", "t", " ", "1", "1", " ", "2", "0", "1", "9", " ", "2", "2", ":", "1", "4", ":", "1", "5">>
Ts3339 == <<"2", "0", "1", "9", "-", "1", "0", "-", "1", "1", "T", "2", "2", ":", "1", "4", ":", "1", "5", "Z">>
Ts3339Frac == <<"2", "0", "1", "9", "-", "1", "0", "-", "1", "1", "T", "2", "2", ":", "1", "4", ":", "1", "5", ".", "0", "0", "3", "-", "0", "7", ":", "0", "0">>
TsBad == <<"O", "c", "t", " ", "1", "1">>

Pri34 == <<"<", "3", "4", ">">>
Host == <<"h", "o", "s", "t">>
App == <<"a", "p", "p">>
AppPid == <<"a", "p", "p", "[", "1", "2", "]">>
AppPidX == <<"a", "p", "p", "[", "1", "2", "]", "x">>
EmptyPid == <<"a", "p", "p", "[", "]">>
Dash == <<"-">>
Hi == <<"h", "i">>
SdGood == <<"[", "i", "d", " ", "k", "=", "\"", "v", "\"", "]">>
SdNoId == <<"[", "k", "=", "\"", "v", "\"", "]">>

\* how a present token is written after the timestamp
Tok(o) == IF IsSome(o) THEN <<" ">> \o Unwrap(o) ELSE << >>

Shape(kind, lead, p, ver, ts, tok1, tok2, pid, mid, sep, sd, body, trail) ==
  [kind |-> kind, lead |-> lead, pri |-> p, ver |-> ver, ts |-> ts, tok1 |-> tok1,
   tok2 |-> tok2, procid |-> pid, msgid |-> mid, sep |-> sep, sd |-> sd, body |-> body,
   trail |-> trail]

\* the line of a shape: lead pri ver ts tokens sep sd body trail
Build(sh) ==
  sh.lead \o sh.pri \o sh.ver \o sh.ts \o Tok(sh.tok1) \o Tok(sh.tok2)
  \o Tok(sh.procid) \o Tok(sh.msgid) \o sh.sep \o sh.sd \o sh.body \o sh.trail

\* RFC3164 lines: zero, one or two tokens and a separator after the timestamp
Tokens1 == {Some(Host), Some(AppPid), Some(Dash), Some(EmptyPid)}
Tokens2 == {None, Some(App), Some(AppPid), Some(AppPidX), Some(Dash)}
Separators == {<<":", " ">>, <<" ", ":", " ">>, <<" ", " ">>}

Shapes3164 ==
  {Shape("3164", << >>, Pri34, << >>, ts, t1, t2, None, None, sep, << >>, Hi, << >>) :
     ts \in {TsNoYear, Ts3339}, t1 \in Tokens1, t2 \in Tokens2, sep \in Separators}
  \cup
  {Shape("3164", << >>, p, << >>, ts, None, None, None, None, sep, sd, Hi, << >>) :
     p \in {<< >>, Pri34}, ts \in {TsNoYear, TsFeb29, TsWithYear, Ts3339, Ts3339Frac, TsBad},
     sep \in Separators, sd \in {<< >>, SdGood \o <<" ">>, SdNoId \o <<" ">>}}

\* RFC5424 lines: version, timestamp, the four header tokens, structured data
Shapes5424 ==
  {Shape("5424", << >>, p, <<"1", " ">>, ts, Some(h), Some(App), Some(pid), Some(mid),
         <<" ">>, sd, body, << >>) :
     p \in {<< >>, Pri34}, ts \in {Ts3339, TsNoYear}, h \in {Host, Dash},
     pid \in {Dash, <<"1", "2">>}, mid \in {Dash, <<"I", "D">>},
     sd \in {Dash, SdGood, SdGood \o SdNoId, << >>}, body \in {<< >>, <<" ">> \o Hi}}
  \cup
  {Shape("5424", << >>, Pri34, <<"2", "3", " ">>, Ts3339, Some(Host), Some(App), Some(Dash),
         Some(Dash), <<" ">>, sd, <<" ">> \o Hi, << >>) : sd \in {Dash, << >>}}

\* process ids as they are written: numbers with and without a sign, the
\* ends of the range of i32 and one beyond each, and partly numeric tokens
PidTokens ==
  {<<"-", "5">>, <<"+", "5">>, <<"0", "0", "7">>, <<"1", "2", "a">>, <<"a", "1", "2">>,
   <<"2", "1", "4", "7", "4", "8", "3", "6", "4", "7">>,
   <<"2", "1", "4", "7", "4", "8", "3", "6", "4", "8">>,
   <<"-", "2", "1", "4", "7", "4", "8", "3", "6", "4", "8">>,
   <<"-", "2", "1", "4", "7", "4", "8", "3", "6", "4", "9">>,
   <<"1", "2", "3", "4", "5", "6", "7", "8", "9", "0", "1">>}

\* lines of both grammars that carry such a process id
ShapesPid ==
  {Shape("5424", << >>, Pri34, <<"1", " ">>, Ts3339, Some(Host), Some(App), Some(pid),
         Some(Dash), <<" ">>, Dash, <<" ">> \o Hi, << >>) : pid \in PidTokens}
  \cup
  {Shape("3164", << >>, Pri34, << >>, TsNoYear, Some(Host),
         Some(App \o <<"[">> \o pid \o <<"]">>), None, None, <<":", " ">>, << >>, Hi, << >>) :
     pid \in PidTokens}

\* the largest number written in a priority: one more than a u8 holds
MaxPri == 256

\* the priority n as it is written
PriPrefix(n) == <<"<">> \o FmtNat(n) \o <<">">>

\* priorities as they are written: every number up to MaxPri, one of four
\* digits, one with a leading zero, and prefixes that are not <digits>
PriTexts ==
  {PriPrefix(n) : n \in 0..MaxPri}
  \cup {<<"<", "1", "0", "0", "0", ">">>, <<"<", "0", "3", "4", ">">>, <<"<", ">">>,
        <<"<", "3", "a", ">">>, <<"<", "3", "4">>, <<"<">>, <<"3", "4", ">">>}

\* RFC3164 lines with these priorities
ShapesPri ==
  {Shape("3164", << >>, p, << >>, TsNoYear, Some(Host), None, None, None, <<":", " ">>,
         << >>, Hi, << >>) : p \in PriTexts}

\* the longest run of well-formed elements before a bracket that is none
MaxGood == 2

\* k well-formed elements, one after the other
RECURSIVE GoodRun(_)
GoodRun(k) == IF k = 0 THEN << >> ELSE SdGood \o GoodRun(k - 1)

\* bracketed text that is no element: no id, a param without a value, nothing
\* at all, a value without quotes
BadBrackets ==
  {SdNoId, <<"[", "i", "d", " ", "k", "=", "]">>, <<"[", "]">>,
   <<"[", "i", "d", " ", "k", "=", "v", "]">>}

Gaps == {<< >>, <<" ">>}

\* RFC3164 lines with such a bracket after the header and after k elements
ShapesSd3164 ==
  {Shape("3164", << >>, Pri34, << >>, TsNoYear, Some(Host), Some(App), None, None,
         <<":", " ">>, GoodRun(k) \o gap \o bad \o <<" ">>, Hi, << >>) :
     k \in 0..MaxGood, gap \in Gaps, bad \in BadBrackets}

\* RFC5424 lines with such a bracket among the elements
ShapesSd5424 ==
  {Shape("5424", << >>, Pri34, <<"1", " ">>, Ts3339, Some(Host), Some(App), Some(Dash),
         Some(Dash), <<" ">>, GoodRun(k) \o bad \o GoodRun(j), <<" ">> \o Hi, << >>) :
     k \in 0..MaxGood, j \in 0..1, bad \in BadBrackets}

\* lines that are no syslog at all
ShapesJunk ==
  {Shape("junk", << >>, << >>, << >>, << >>, None, None, None, None, << >>, << >>, b, << >>) :
     b \in {<< >>, Hi \o <<" ">> \o Hi}}

\* RFC3164 lines dated Feb 29 without a year, with header tokens
ShapesFeb29 ==
  {Shape("3164", << >>, Pri34, << >>, TsFeb29, Some(Host), t2, None, None, <<":", " ">>,
         << >>, Hi, << >>) : t2 \in {None, Some(AppPid)}}

\* RFC3164 lines with one token, then spaces, then text of one or two words:
\* after two or three spaces the text is the body of the line, after one
\* space its first word stands where the second token does
Spaces == {<<" ", " ">>, <<" ", " ", " ">>}
Texts == {Hi, Hi \o <<" ">> \o App}

ShapesSpaced ==
  {Shape("3164", << >>, Pri34, << >>, TsNoYear, Some(t), None, None, None, sep, << >>, body,
         << >>) : t \in {Host, AppPid}, sep \in Spaces, body \in Texts}
  \cup
  {Shape("3164", << >>, Pri34, << >>, TsNoYear, Some(t), Some(Hi), None, None, sep, << >>,
         body, << >>) : t \in {Host, AppPid}, sep \in {<<" ">>, <<":", " ">>}, body \in {<< >>, App}}

\* RFC3164 lines whose tag is a process id in brackets without a name
BarePid == <<"[", "1", "2", "]">>

ShapesBarePid ==
  {Shape("3164", << >>, Pri34, << >>, TsNoYear, t[1], t[2], None, None, <<":", " ">>, << >>,
         Hi, << >>) : t \in {<<Some(BarePid), None>>, <<Some(Host), Some(BarePid)>>}}

\* the same lines with white space around them
ShapesPadded ==
  {[sh EXCEPT !.lead = l, !.trail = t] :
     sh \in {x \in Shapes3164 \cup Shapes5424 \cup ShapesJunk :
               /\ x.ts \in {TsNoYear, Ts3339, << >>}
               /\ x.tok1 \in {None, Some(Host)}
               /\ x.tok2 \in {None, Some(App)}
               /\ x.sep \in {<<":", " ">>, <<" ">>, << >>}
               /\ x.sd \in {<< >>, Dash}
               /\ x.pri \in {Pri34, << >>}
               /\ x.procid \in {None, Some(Dash)}
               /\ x.msgid \in {None, Some(Dash)}
               /\ (x.body # << >> \/ x.kind = "junk")},
     l \in Pads, t \in Pads}

Shapes ==
  Shapes3164 \cup Shapes5424 \cup ShapesPid \cup ShapesPri \cup ShapesSd3164 \cup ShapesSd5424
  \cup ShapesFeb29 \cup ShapesSpaced \cup ShapesBarePid \cup ShapesJunk \cup ShapesPadded

\* the year resolver, the caller's timezone and the system's offset
Environments ==
  {[resolver |-> "with_year", tz |-> None, localOff |-> 0],
   [resolver |-> "y2019", tz |-> Some(18000), localOff |-> 0],
   [resolver |-> "with_year", tz |-> None, localOff |-> 0 - 3600]}

\* the Messages of the round trip, as the generators of quickcheck.rs make
\* them: a priority in 0..191, a whole-second UTC timestamp, field values
\* without white space or delimiters, and for RFC3164 no msgid and no
\* procid without appname
GenTimestamp == [utc |-> 1570832055, nanos |-> 0, off |-> 0]
GenElements == {<< >>, <<[id |-> <<"i", "d">>, params |-> << <<<<"k">>, <<"v">>>> >>]>>}

GenMessages ==
  {Message(RFC5424(1), decompose_pri(n), Some(GenTimestamp), h, a, pid, mid, sd, m) :
     n \in {0, 34, 191}, h \in {None, Some(Host), Some(Dash)}, a \in {None, Some(App)},
     pid \in {None, Some(PID(12)), Some(Name(<<"p">>))}, mid \in {None, Some(<<"I", "D">>)},
     sd \in GenElements, m \in {<< >>, Hi}}
  \cup
  {Message(RFC3164, decompose_pri(n), Some(GenTimestamp), h, a[1], a[2], None, sd, m) :
     n \in {34, 191}, h \in {None, Some(Host)},
     a \in {<<None, None>>, <<Some(App), None>>, <<Some(App), Some(PID(12))>>},
     sd \in GenElements, m \in {<< >>, Hi}}

NoShape == Shape("none", << >>, << >>, << >>, << >>, None, None, None, None, << >>, << >>,
                 << >>, << >>)

\* ------------------------------------------------------------------------
\* The state: one call of an entry point, from the call to its result
\* ------------------------------------------------------------------------
VARIABLES
  pc,        \* "idle", the dispatcher's state, or "done"
  input,     \* the text handed to the entry point
  shape,     \* the parts the text was written from
  gen,       \* the Message the text is the Display of, if it is one
  variant,   \* Either, RFC3164 or RFC5424
  exact,     \* whether an exact entry point was called
  env,       \* the year resolver, the timezone and the system's offset
  tried,     \* the grammars attempted so far, in order
  calls,     \* how often the year resolver has been invoked
  result,    \* what the entry point returns
  left,      \* the value an operation on parsed data is applied to
  right,     \* the value left is compared with
  verdict    \* what the operation on parsed data returns

vars ==
  <<pc, input, shape, gen, variant, exact, env, tried, calls, result, left, right, verdict>>

Init ==
  /\ pc = "idle"
  /\ input = << >>
  /\ shape = NoShape
  /\ gen = None
  /\ variant = "Either"
  /\ exact = FALSE
  /\ env \in Environments
  /\ tried = << >>
  /\ calls = 0
  /\ result = NoResult
  /\ left = << >>
  /\ right = << >>
  /\ verdict = << >>

\* a caller hands a line to an entry point
Call(sh, v, ex) ==
  /\ pc = "idle"
  /\ input' = Build(sh)
  /\ shape' = sh
  /\ variant' = v
  /\ exact' = ex
  /\ pc' = FirstGrammar(v)
  /\ UNCHANGED <<gen, env, tried, calls, result, left, right, verdict>>

\* the round trip of quickcheck.rs: the Display of a Message is parsed
Render(m) ==
  /\ pc = "idle"
  /\ input' = Display(m)
  /\ gen' = Some(m)
  /\ pc' = FirstGrammar("Either")
  /\ UNCHANGED <<shape, variant, exact, env, tried, calls, result, left, right, verdict>>

\* the match of parse on the header h, and the ? on what follows it: m is
\* the result of the whole RFC5424 grammar
Match5424(h, m) ==
  IF ~h.ok THEN pc' = After5424Failure(variant) /\ result' = result
  ELSE IF ~m.ok THEN pc' = "GiveUp" /\ result' = result
  ELSE pc' = "done" /\ result' = MsgResult(m.val)

\* the result m of the RFC3164 grammar ends parse
Match3164(m) ==
  /\ calls' = calls + m.calls
  /\ IF m.ok THEN pc' = "done" /\ result' = MsgResult(m.val)
     ELSE pc' = "GiveUp" /\ result' = result

\* parse: the RFC5424 attempt
TryRFC5424 ==
  /\ pc = "TryRFC5424"
  /\ tried' = Append(tried, "RFC5424")
  /\ Match5424(Header5424(input), Parse5424(input))
  /\ UNCHANGED <<input, shape, gen, variant, exact, env, calls, left, right, verdict>>

\* parse: the RFC3164 attempt
TryRFC3164 ==
  /\ pc = "TryRFC3164"
  /\ tried' = Append(tried, "RFC3164")
  /\ Match3164(Parse3164(input, env.resolver, env.tz, env.localOff))
  /\ UNCHANGED <<input, shape, gen, variant, exact, env, left, right, verdict>>

\* GiveUp keeping the priority that stands at the start of the input
GiveUp_KeepsPriority ==
  /\ pc = "GiveUp"
  /\ ~exact
  /\ tried' = Append(tried, "fallback")
  /\ result' = MsgResult(Message(RFC3164, pri(input).val, None, None, None, None, None, << >>,
                                 input))
  /\ pc' = "done"
  /\ UNCHANGED <<input, shape, gen, variant, exact, env, calls, left, right, verdict>>

\* parse_message_with_year: the whole input becomes the message
GiveUp ==
  /\ pc = "GiveUp"
  /\ ~exact
  /\ tried' = Append(tried, "fallback")
  /\ result' = MsgResult(Fallback(input))
  /\ pc' = "done"
  /\ UNCHANGED <<input, shape, gen, variant, exact, env, calls, left, right, verdict>>

\* GiveUpExact returning the fallback Message in place of the error
GiveUpExact_FallsBack ==
  /\ pc = "GiveUp"
  /\ exact
  /\ result' = MsgResult(Fallback(input))
  /\ pc' = "done"
  /\ UNCHANGED <<input, shape, gen, variant, exact, env, tried, calls, left, right, verdict>>

\* the exact entry points: the failure is returned
GiveUpExact ==
  /\ pc = "GiveUp"
  /\ exact
  /\ result' = ErrResult(GenericParseError)
  /\ pc' = "done"
  /\ UNCHANGED <<input, shape, gen, variant, exact, env, tried, calls, left, right, verdict>>

Next ==
  \/ \E sh \in Shapes, v \in Variants, ex \in BOOLEAN : Call(sh, v, ex)
  \/ \E m \in GenMessages : Render(m)
  \/ TryRFC5424
  \/ TryRFC3164
  \/ GiveUp
  \/ GiveUpExact

Spec == Init /\ [][Next]_vars

\* ------------------------------------------------------------------------
\* The operations on parsed data: == on elements and on Messages, and the
\* params accessor of an element.  Each run applies one of them to values
\* drawn from the sets below.
\* ------------------------------------------------------------------------
\* the most params of a compared element
MaxParams == 2

ParamPairs == {<<<<"a">>, <<"1">>>>, <<<<"b">>, <<"2">>>>, <<<<"a">>, <<"2">>>>}

ParamLists == UNION {[1..n -> ParamPairs] : n \in 0..MaxParams}

\* the elements that are compared
EqElements == {[id |-> i, params |-> ps] : i \in {<<"i", "d">>, <<"x">>}, ps \in ParamLists}

\* the Messages that are compared: both protocols, one instant written at two
\* offsets, and structured data that differs in the order and in the number
\* of the params
EqMessages ==
  {Message(protocol, decompose_pri(34), ts, h, Some(App), None, None, sd, m) :
     protocol \in {RFC3164, RFC5424(1)},
     ts \in {Some(GenTimestamp), Some([utc |-> 1570832055, nanos |-> 0, off |-> 3600])},
     h \in {None, Some(Host)},
     sd \in {<< >>,
             <<[id |-> <<"x">>, params |-> << <<<<"a">>, <<"1">>>>, <<<<"b">>, <<"2">>>> >>]>>,
             <<[id |-> <<"x">>, params |-> << <<<<"b">>, <<"2">>>>, <<<<"a">>, <<"1">>>> >>]>>,
             <<[id |-> <<"x">>, params |-> << <<<<"a">>, <<"1">>>> >>]>>},
     m \in {<< >>, Hi}}

\* the most pieces a written param value is made of
MaxPieces == 3

\* the pieces of a written value: plain characters and a backslash with the
\* character after it
Pieces ==
  {<<"a">>, <<"n">>, <<"]">>, <<"\\", "\"">>, <<"\\", "\\">>, <<"\\", "]">>, <<"\\", "n">>,
   <<"\\", "m">>}

RECURSIVE Flatten(_)
Flatten(ss) == IF Len(ss) = 0 THEN << >> ELSE ss[1] \o Flatten(Tail(ss))

WrittenValues == {Flatten(f) : f \in UNION {[1..n -> Pieces] : n \in 0..MaxPieces}}

\* the text of the element [id k="value"]
ElementText(value) ==
  <<"[", "i", "d", " ", "k", "=", "\"">> \o value \o <<"\"", "]">>

ElementTexts == {ElementText(v) : v \in WrittenValues}

\* the most bracketed spans of a run
MaxSpans == 3

\* bracketed spans as they are written, each with the element it is: three
\* elements (one with an escaped ] in a value) and three spans that are no
\* element (nothing, a param without a value, a word that is no param)
Spans ==
  {[text |-> <<"[", "a", "]">>, el |-> Some([id |-> <<"a">>, params |-> << >>])],
   [text |-> <<"[", "b", " ", "k", "=", "\"", "v", "\"", "]">>,
    el |-> Some([id |-> <<"b">>, params |-> << <<<<"k">>, <<"v">>>> >>])],
   [text |-> <<"[", "c", " ", "k", "=", "\"", "x", "\\", "]", "y", "\"", "]">>,
    el |-> Some([id |-> <<"c">>, params |-> << <<<<"k">>, <<"x", "\\", "]", "y">>>> >>])],
   [text |-> <<"[", "]">>, el |-> None],
   [text |-> <<"[", "a", " ", "k", "=", "]">>, el |-> None],
   [text |-> <<"[", "i", "n", "c", "o", "r", "r", "e", "c", "t", " ", "x", "]">>, el |-> None]}

\* runs of adjacent spans
SpanRuns == UNION {[1..n -> Spans] : n \in 1..MaxSpans}

\* the text of a run
RECURSIVE RunText(_)
RunText(run) == IF Len(run) = 0 THEN << >> ELSE run[1].text \o RunText(Tail(run))

\* the elements that are iterated: up to MaxParams params, among them
\* values with escape sequences
IterPairs ==
  {<<<<"a">>, <<"1">>>>, <<<<"b">>, <<"x", "\\", "\"", "y">>>>, <<<<"c">>, <<"\\", "n">>>>}

IterElements ==
  {[id |-> <<"i", "d">>, params |-> ps] :
     ps \in UNION {[1..n -> IterPairs] : n \in 0..MaxParams}}

\* how many iterators are made of one element, and how many times next is
\* called on an iterator that has ended
MaxIters == 2
MaxExtra == 2

\* no iterator yet
NoIter == [made |-> 0, pos |-> 0, out |-> << >>]

InitData ==
  /\ input = << >>
  /\ shape = NoShape
  /\ gen = None
  /\ variant = "Either"
  /\ exact = FALSE
  /\ env = [resolver |-> "y2019", tz |-> None, localOff |-> 0]
  /\ tried = << >>
  /\ calls = 0
  /\ result = NoResult
  /\ verdict = << >>
  /\ \/ pc = "CompareElements" /\ left \in EqElements /\ right \in EqElements
     \/ pc = "CompareMessages" /\ left \in EqMessages /\ right \in EqMessages
     \/ pc = "Params" /\ left \in ElementTexts /\ right = << >>
     \/ pc = "StructuredData" /\ left \in SpanRuns /\ right = << >>
     \/ pc = "Iterate" /\ left \in IterElements /\ right = NoIter

\* left == right on two elements
CompareElements ==
  /\ pc = "CompareElements"
  /\ verdict' = ElementEq(left, right)
  /\ pc' = "ElementsCompared"
  /\ UNCHANGED <<input, shape, gen, variant, exact, env, tried, calls, result, left, right>>

\* left == right on two Messages
CompareMessages ==
  /\ pc = "CompareMessages"
  /\ verdict' = MessageEq(left, right)
  /\ pc' = "MessagesCompared"
  /\ UNCHANGED <<input, shape, gen, variant, exact, env, tried, calls, result, left, right>>

\* the one element of the parsed structured data sd: its params as they are
\* stored and as the accessor returns them
ParamsOf(sd) ==
  IF sd.ok /\ Len(sd.val) = 1
  THEN [ok |-> TRUE, id |-> sd.val[1].id, raw |-> sd.val[1].params,
        decoded |-> params(sd.val[1])]
  ELSE [ok |-> FALSE, id |-> << >>, raw |-> << >>, decoded |-> << >>]

\* structured_data on the text left, then params().collect()
Params ==
  /\ pc = "Params"
  /\ verdict' = ParamsOf(structured_data(left))
  /\ pc' = "Decoded"
  /\ UNCHANGED <<input, shape, gen, variant, exact, env, tried, calls, result, left, right>>

\* Display of the owned element that holds the id and the decoded values the
\* accessor returned: the text written is kept in right
DisplayDecoded ==
  /\ pc = "Decoded"
  /\ verdict.ok
  /\ right' = FmtElement([id |-> verdict.id, params |-> verdict.decoded])
  /\ pc' = "Displayed"
  /\ UNCHANGED <<input, shape, gen, variant, exact, env, tried, calls, result, left, verdict>>

\* structured_data on the text of the run left
StructuredData ==
  /\ pc = "StructuredData"
  /\ verdict' = structured_data(RunText(left))
  /\ pc' = "Collected"
  /\ UNCHANGED <<input, shape, gen, variant, exact, env, tried, calls, result, left, right>>

\* StructuredElement::params: a new iterator over the element left; right
\* holds its position, what it has returned so far and how many were made
NewParamsIter ==
  /\ pc \in {"Iterate", "Iterating"}
  /\ right.made < MaxIters
  /\ right' = [made |-> right.made + 1, pos |-> 0, out |-> << >>]
  /\ pc' = "Iterating"
  /\ UNCHANGED <<input, shape, gen, variant, exact, env, tried, calls, result, left, verdict>>

\* ParamsIter::next beginning again at the first pair once it has ended
ParamsIterNext_Wraps ==
  /\ pc = "Iterating"
  /\ Len(right.out) < Len(left.params) + MaxExtra
  /\ IF right.pos >= Len(left.params)
     THEN right' = [right EXCEPT !.pos = 0, !.out = Append(@, None)]
     ELSE right' = [right EXCEPT
                      !.pos = @ + 1,
                      !.out = Append(@, Some(<<left.params[right.pos + 1][1],
                                               trimmed(left.params[right.pos + 1][2], FALSE)>>))]
  /\ UNCHANGED <<pc, input, shape, gen, variant, exact, env, tried, calls, result, left,
                 verdict>>

\* ParamsIter::next: None at the end, else the pair at pos with its value
\* decoded, and pos moves on
ParamsIterNext ==
  /\ pc = "Iterating"
  /\ Len(right.out) < Len(left.params) + MaxExtra
  /\ IF right.pos >= Len(left.params)
     THEN right' = [right EXCEPT !.out = Append(@, None)]
     ELSE right' = [right EXCEPT
                      !.pos = @ + 1,
                      !.out = Append(@, Some(<<left.params[right.pos + 1][1],
                                               trimmed(left.params[right.pos + 1][2], FALSE)>>))]
  /\ UNCHANGED <<pc, input, shape, gen, variant, exact, env, tried, calls, result, left,
                 verdict>>

NextData ==
  \/ CompareElements
  \/ CompareMessages
  \/ Params
  \/ DisplayDecoded
  \/ StructuredData
  \/ NewParamsIter
  \/ ParamsIterNext

SpecData == InitData /\ [][NextData]_vars

\* ------------------------------------------------------------------------
\* Properties
\* ------------------------------------------------------------------------
InTried(g) == \E i \in 1..Len(tried) : tried[i] = g

\* the call has returned a Message that the RFC3164 grammar produced
From3164 == pc = "done" /\ result.kind = "msg" /\ tried[Len(tried)] = "RFC3164"

\* the call has returned the whole-input fallback
FellBack == pc = "done" /\ result.kind = "msg" /\ InTried("fallback")

\* every header field of m is absent
HeaderAbsent(m) ==
  /\ m.facility = None /\ m.severity = None /\ m.timestamp = None
  /\ m.hostname = None /\ m.appname = None /\ m.procid = None /\ m.msgid = None

\* C1: a permissive entry point always returns a Message; when neither the
\* RFC5424 nor the RFC3164 grammar matches the input, that Message has every
\* header field absent, protocol RFC3164, no structured data, and the entire
\* input as msg.
C1_PermissiveFallback ==
  (pc = "done" /\ ~exact) =>
     /\ result.kind = "msg"
     /\ (~Parse5424(input).ok /\ ~Parse3164(input, env.resolver, env.tz, env.localOff).ok)
          => /\ HeaderAbsent(result.msg)
             /\ result.msg.protocol = <<"RFC3164">>
             /\ result.msg.structured_data = << >>
             /\ result.msg.msg = input

C1_Witness ==
  /\ FellBack /\ ~exact /\ variant = "Either"
  /\ shape.lead # << >> /\ shape.body # << >>
  /\ result.msg.msg = input /\ HeaderAbsent(result.msg)

\* C2: when the RFC5424 attempt fails at any stage, the structured data
\* after a matched header included, nothing of it is kept and the RFC3164
\* grammar is then attempted on the whole original input.
C2_Failed5424FallsThroughTo3164 ==
  (pc = "done" /\ variant = "Either" /\ ~Parse5424(input).ok) =>
     /\ InTried("RFC3164")
     /\ result.kind = "msg" => result.msg.protocol = <<"RFC3164">>

\* the version number written in the line
WrittenVersion ==
  IF IsSome(gen) THEN Unwrap(gen).protocol[2]
  ELSE DigitsValue(Take(shape.ver, Len(shape.ver) - 1))

\* the grammars in the order the dispatcher is to try them
Rank(g) == IF g = "RFC5424" THEN 1 ELSE IF g = "RFC3164" THEN 2 ELSE 3

C4_InputIsTrimmed ==
  (pc = "done" /\ variant = "Either" /\ ~exact) =>
     /\ result.msg = parse_message_with_year(Trim(input), env)
     /\ InTried("fallback") => result.msg.msg = Trim(input)

\* an absent hostname and the hostname "-" count as equal
SameHostname(a, b) ==
  a = b \/ (a = Some(<<"-">>) /\ b = None) \/ (a = None /\ b = Some(<<"-">>))

\* C5: parsing the Display of a well-formed Message of either protocol with
\* variant Either gives a Message equal to it in every field, the protocol
\* included.
C5_RoundTrip ==
  (pc = "done" /\ IsSome(gen)) =>
     LET m == Unwrap(gen)
         parsed == result.msg
     IN  /\ result.kind = "msg"
         /\ parsed.protocol = m.protocol
         /\ parsed.facility = m.facility
         /\ parsed.severity = m.severity
         /\ TsEq(parsed.timestamp, m.timestamp)
         /\ SameHostname(m.hostname, parsed.hostname)
         /\ parsed.appname = m.appname
         /\ parsed.procid = m.procid
         /\ parsed.msgid = m.msgid
         /\ parsed.structured_data = m.structured_data
         /\ parsed.msg = m.msg

\* the round trip of the RFC5424 Messages alone
RoundTrip5424 ==
  (pc = "done" /\ IsSome(gen) /\ Unwrap(gen).protocol # <<"RFC3164">>) => C5_RoundTrip

\* whether a grammar the variant v admits matches the line
Matches5424(v) == v # "RFC3164" /\ Parse5424(input).ok
Matches3164(v) ==
  v # "RFC5424" /\ Parse3164(input, env.resolver, env.tz, env.localOff).ok

\* what a permissive entry point returns for the line under variant v
PermissiveResult(v) ==
  IF Matches5424(v) THEN Parse5424(input).val
  ELSE IF Matches3164(v)
    THEN Parse3164(input, env.resolver, env.tz, env.localOff).val
  ELSE [protocol |-> <<"RFC3164">>, facility |-> None, severity |-> None,
        timestamp |-> None, hostname |-> None, appname |-> None, procid |-> None,
        msgid |-> None, structured_data |-> << >>, msg |-> input]

\* C6: an exact entry point returns the error exactly when the permissive
\* entry point would fall back to the whole input as message, and otherwise
\* Ok of the Message the permissive entry point returns for the same input,
\* resolver, timezone and variant; the error is the one generic text.
C6_ExactAgreesWithPermissive ==
  (pc = "done" /\ exact) =>
     /\ result.kind \in {"msg", "err"}
     /\ result.kind = "err" <=> (~Matches5424(variant) /\ ~Matches3164(variant))
     /\ result.kind = "msg" => result.msg = PermissiveResult(variant)
     /\ result.kind = "err" =>
          result.error = "unable to parse input as valid syslog message"

C6_Witness ==
  /\ pc = "done" /\ exact /\ result.kind = "err" /\ shape.kind = "junk"
  /\ shape.body # << >>

C6_WitnessOk ==
  /\ pc = "done" /\ exact /\ result.kind = "msg" /\ shape.kind = "3164"

\* C7: a forced variant never attempts the other grammar, and a line that
\* fails the forced grammar goes straight to the fallback or to the error.
C7_ForcedVariantSkipsAlternation ==
  /\ variant = "RFC5424" => ~InTried("RFC3164")
  /\ variant = "RFC3164" => ~InTried("RFC5424")
  /\ (pc = "done" /\ variant # "Either") =>
        /\ tried[1] = variant
        /\ IF (variant = "RFC5424" /\ Parse5424(input).ok)
              \/ (variant = "RFC3164"
                  /\ Parse3164(input, env.resolver, env.tz, env.localOff).ok)
           THEN tried = <<variant>> /\ result.kind = "msg"
                /\ result.msg.protocol[1] = variant
           ELSE IF exact THEN tried = <<variant>> /\ result.kind = "err"
           ELSE tried = <<variant, "fallback">> /\ result.msg.msg = input
                /\ HeaderAbsent(result.msg)

\* a line the RFC3164 grammar accepts is refused under the forced RFC5424
\* variant, and the other way round
C7_Witness ==
  /\ pc = "done" /\ variant = "RFC5424" /\ ~exact
  /\ tried = <<"RFC5424", "fallback">>
  /\ Parse3164(input, env.resolver, env.tz, env.localOff).ok

C7_Witness3164 ==
  /\ pc = "done" /\ variant = "RFC3164" /\ exact
  /\ result.kind = "err" /\ Parse5424(input).ok

\* the position of the [ of a token written name[pid]: nothing of the name
\* is a [ or a :, the pid is not empty and holds no ], and the ] ends the
\* token; 0 when the token is not written so
TagSplit(t) ==
  LET opens == {i \in 1..Len(t) : t[i] = "["}
      i == IF opens = {} THEN 0 ELSE SetMin(opens)
  IN  IF /\ i > 0 /\ Len(t) > i + 1 /\ t[Len(t)] = "]"
         /\ \A j \in 1..(i - 1) : t[j] # ":"
         /\ \A j \in (i + 1)..(Len(t) - 1) : t[j] # "]"
      THEN i ELSE 0

TagName(t) == Take(t, TagSplit(t) - 1)
TagPid(t) == SubSeq(t, TagSplit(t) + 1, Len(t) - 1)

\* the value a written token stands for: - is the absent value
Written(o) == IF o = Some(<<"-">>) THEN None ELSE o

\* C8: in the RFC3164 grammar, when two tokens follow the timestamp, the
\* hostname is the first token; when the whole second token is name[pid],
\* appname is name and procid is pid, otherwise appname is the second token
\* verbatim and procid is absent.
C8_TwoTokens ==
  (From3164 /\ shape.kind = "3164" /\ IsSome(shape.tok1) /\ IsSome(shape.tok2)) =>
     LET t2 == Unwrap(shape.tok2)
     IN  /\ SameHostname(result.msg.hostname, shape.tok1)
         /\ IF TagSplit(t2) > 0
            THEN /\ result.msg.appname = Some(TagName(t2))
                 /\ result.msg.procid = Some(ProcIdFrom(TagPid(t2)))
            ELSE /\ result.msg.appname = Written(shape.tok2)
                 /\ result.msg.procid = None

\* C8 for the lines whose second token is not the - of an empty field
TwoTokensWithValue ==
  shape.tok2 # Some(<<"-">>) => C8_TwoTokens

\* C9: in the RFC3164 grammar, when exactly one token follows the
\* timestamp: if the whole token is name[pid], hostname is absent, appname
\* is name and procid is pid; otherwise the token is the hostname and
\* appname and procid are absent.
C9_OneToken ==
  (From3164 /\ shape.kind = "3164" /\ IsSome(shape.tok1) /\ IsNone(shape.tok2)) =>
     LET t1 == Unwrap(shape.tok1)
     IN  IF TagSplit(t1) > 0
         THEN /\ result.msg.hostname = None
              /\ result.msg.appname = Some(TagName(t1))
              /\ result.msg.procid = Some(ProcIdFrom(TagPid(t1)))
         ELSE /\ SameHostname(result.msg.hostname, shape.tok1)
              /\ result.msg.appname = None
              /\ result.msg.procid = None

C9_Witness ==
  /\ From3164 /\ shape.kind = "3164" /\ IsNone(shape.tok2)
  /\ shape.tok1 = Some(<<"a", "p", "p", "[", "1", "2", "]">>)
  /\ result.msg.hostname = None
  /\ result.msg.appname = Some(<<"a", "p", "p">>)
  /\ result.msg.procid = Some(PID(12))

PidText ==
  IF shape.kind = "5424" THEN Unwrap(shape.procid)
  ELSE TagPid(Unwrap(shape.tok2))

\* the line carries a process id and the grammar it was written for read it
ReadPid ==
  /\ pc = "done" /\ result.kind = "msg"
  /\ \/ shape.kind = "5424" /\ result.msg.protocol[1] = "RFC5424"
        /\ shape.procid # Some(<<"-">>)
     \/ shape.kind = "3164" /\ From3164 /\ IsSome(shape.tok1) /\ IsSome(shape.tok2)
        /\ TagSplit(Unwrap(shape.tok2)) > 0

\* the digits of a token after its sign, and whether the sign is a minus
Unsigned(t) == IF Len(t) > 0 /\ t[1] \in {"+", "-"} THEN Tail(t) ELSE t
Negative(t) == Len(t) > 0 /\ t[1] = "-"

\* the token is the decimal writing of a number in -2^31 .. 2^31 - 1
SpellsI32(t) ==
  /\ AllDigits(Unsigned(t))
  /\ \/ DigitsLeq(StripZeros(Unsigned(t)), <<"2", "1", "4", "7", "4", "8", "3", "6", "4", "7">>)
     \/ Negative(t)
        /\ StripZeros(Unsigned(t)) = <<"2", "1", "4", "7", "4", "8", "3", "6", "4", "8">>

\* the shortest writing of the number the token spells
Canonical(t) ==
  IF Negative(t) /\ StripZeros(Unsigned(t)) # <<"0">>
  THEN <<"-">> \o StripZeros(Unsigned(t)) ELSE StripZeros(Unsigned(t))

\* C11: an isolated process-id token becomes PID(n) exactly when the whole
\* token is the writing of a signed 32-bit integer n, and Name(token)
\* otherwise: digit strings outside the range of i32 and partly numeric
\* tokens are names.
C11_PidOrName ==
  ReadPid =>
     /\ IsSome(result.msg.procid)
     /\ LET p == Unwrap(result.msg.procid)
        IN  IF SpellsI32(PidText)
            THEN p.kind = "PID" /\ p.name = << >> /\ FmtInt(p.pid) = Canonical(PidText)
            ELSE p.kind = "Name" /\ p.name = PidText

C11_Witness ==
  /\ ReadPid /\ shape.kind = "5424"
  /\ PidText = <<"2", "1", "4", "7", "4", "8", "3", "6", "4", "8">>
  /\ result.msg.procid = Some(Name(PidText))

C11_WitnessPid ==
  /\ ReadPid /\ shape.kind = "3164"
  /\ PidText = <<"-", "2", "1", "4", "7", "4", "8", "3", "6", "4", "8">>
  /\ Unwrap(result.msg.procid).kind = "PID"

\* C12: every Message whose protocol is RFC3164, made by the RFC3164 grammar
\* or by the fallback, has msgid absent.
C12_NoMsgidIn3164 ==
  (pc = "done" /\ result.kind = "msg" /\ result.msg.protocol = <<"RFC3164">>) =>
     /\ result.msg.msgid = None
     /\ From3164 \/ FellBack

C12_Witness ==
  /\ From3164 /\ result.msg.protocol = <<"RFC3164">>
  /\ IsSome(result.msg.appname) /\ IsSome(result.msg.procid)
  /\ result.msg.msgid = None

\* the fallback of a line that was written with a msgid
C12_WitnessFallback ==
  /\ FellBack /\ shape.msgid = Some(<<"I", "D">>)
  /\ result.msg.protocol = <<"RFC3164">> /\ result.msg.msgid = None

\* a line has been handed over that begins with < digits >
DigitsPrefix ==
  /\ pc # "idle" /\ IsNone(gen) /\ shape.lead = << >>
  /\ Len(shape.pri) > 2 /\ shape.pri[1] = "<" /\ shape.pri[Len(shape.pri)] = ">"
  /\ AllDigits(SubSeq(shape.pri, 2, Len(shape.pri) - 1))

\* the number written between < and >
WrittenPri == DigitsValue(SubSeq(shape.pri, 2, Len(shape.pri) - 1))

\* a grammar, not the fallback, made the Message that was returned
ByGrammar == pc = "done" /\ result.kind = "msg" /\ ~InTried("fallback")

\* the priority decoded from <N>: the severity N & 7, the facility N >> 3
\* when that is one of the 24 facilities, and no facility otherwise
DecodedAs(n) ==
  LET d == pri(input).val
  IN  /\ d.severity = Some(n % 8)
      /\ d.facility = IF n \div 8 <= 23 THEN Some(n \div 8) ELSE None
      /\ pri(input).rest = Drop(input, Len(shape.pri))
      /\ ByGrammar => /\ result.msg.severity = d.severity
                      /\ result.msg.facility = d.facility

\* C13 as stated: for every number N written in a <N> prefix the decoded
\* severity is the value of N & 7 and always present, and the decoded
\* facility is the value of N >> 3 when that is in 0..23 and absent when
\* it is 24 or more.
C13_EveryNumberDecodes ==
  DigitsPrefix => DecodedAs(WrittenPri)

\* C13 amended: the same for every N in 0..255; a number above 255 does
\* not fit the u8 the prefix is read as, and the prefix then counts as
\* absent: nothing is consumed and facility and severity are both None.
C13_U8Decodes ==
  DigitsPrefix =>
     IF WrittenPri <= 255 THEN DecodedAs(WrittenPri)
     ELSE pri(input) = Ok(input, NoPri)

C13_Witness ==
  /\ DigitsPrefix /\ ByGrammar /\ WrittenPri = 199
  /\ result.msg.severity = Some(7) /\ result.msg.facility = None

C13_WitnessTooLarge ==
  /\ DigitsPrefix /\ WrittenPri = 256 /\ FellBack

\* C14: for every N in 0..191, decompose_pri(N) gives a facility f and a
\* severity s that are both present, and compose_pri(f, s) = N.
C14_ComposeInvertsDecompose ==
  (DigitsPrefix /\ WrittenPri <= 191) =>
     LET d == pri(input).val
     IN  /\ IsSome(d.facility) /\ IsSome(d.severity)
         /\ compose_pri(Unwrap(d.facility), Unwrap(d.severity)) = WrittenPri
         /\ ByGrammar =>
              /\ IsSome(result.msg.facility) /\ IsSome(result.msg.severity)
              /\ compose_pri(Unwrap(result.msg.facility), Unwrap(result.msg.severity))
                   = WrittenPri

C14_Witness ==
  /\ DigitsPrefix /\ ByGrammar /\ WrittenPri = 165
  /\ result.msg.facility = Some(20) /\ result.msg.severity = Some(5)
  /\ compose_pri(20, 5) = 165

\* C15: the priority parser never fails: when the input does not begin with
\* a well-formed <digits> prefix (no prefix at all, text that is no number,
\* no closing >), it consumes nothing, gives facility None and severity
\* None, and parsing goes on with the unchanged input.
C15_PriNeverFails ==
  (pc # "idle" /\ IsNone(gen) /\ ~DigitsPrefix) =>
     /\ pri(input) = Ok(input, [facility |-> None, severity |-> None])
     /\ ByGrammar => /\ result.msg.facility = None /\ result.msg.severity = None
                     /\ IsSome(result.msg.timestamp)
     /\ FellBack => result.msg.msg = input

\* a line without a priority, read by the RFC3164 grammar from its first
\* character on
C15_Witness ==
  /\ From3164 /\ shape.kind = "3164" /\ shape.pri = << >> /\ shape.lead = << >>
  /\ result.msg.facility = None /\ result.msg.severity = None
  /\ IsSome(result.msg.timestamp)

\* prefixes that are no number or have no closing >
C15_WitnessMalformed ==
  /\ FellBack /\ shape.pri \in {<<"<", "3", "a", ">">>, <<"<", "3", "4">>, <<"<", ">">>}
  /\ result.msg.msg = input

\* the elements k well-formed elements of the lines stand for
GoodElements(k) ==
  [i \in 1..k |-> [id |-> <<"i", "d">>, params |-> << <<<<"k">>, <<"v">>>> >>]]

\* the header of the RFC3164 line ends before the structured data: a colon
\* written directly after the seconds belongs to the timestamp, and the text
\* after it is read as a header token
HeaderEnds == IsSome(shape.tok1) \/ shape.sep # <<":", " ">>

\* the line is an RFC3164 line whose header is followed by k well-formed
\* elements, gap, and the bracket bad; an RFC5424 line with a well-formed
\* header whose structured data is k well-formed elements, the bracket bad
\* and j more elements
Sd3164Is(k, gap, bad) ==
  /\ shape.kind = "3164" /\ HeaderEnds
  /\ shape.sd = GoodRun(k) \o gap \o bad \o <<" ">>
Sd5424Is(k, bad, j) ==
  /\ shape.kind = "5424" /\ shape.ts = Ts3339
  /\ shape.sd = GoodRun(k) \o bad \o GoodRun(j)

Count(x, ps) == Cardinality({i \in 1..Len(ps) : ps[i] = x})

\* the params p and q are the same multiset of (name, value) pairs
SameParams(p, q) ==
  /\ Len(p) = Len(q)
  /\ \A i \in 1..Len(p) : Count(p[i], p) = Count(p[i], q)

\* C18: two StructuredElements compare equal if and only if their ids are
\* equal and their params are equal as multisets of (name, value) pairs: the
\* order of the params is ignored, but elements with a different number of
\* params, or with any differing pair, are unequal.
C18_ElementEquality ==
  pc = "ElementsCompared" =>
     (verdict <=> (left.id = right.id /\ SameParams(left.params, right.params)))

\* C18 for the elements that have the same number of params
EqualCountElements ==
  (pc = "ElementsCompared" /\ Len(left.params) = Len(right.params)) => C18_ElementEquality

\* the structured data x and y match element by element
SameElements(x, y) ==
  /\ Len(x) = Len(y)
  /\ \A i \in 1..Len(x) : x[i].id = y[i].id /\ SameParams(x[i].params, y[i].params)

\* C19: two Messages compare equal only if all fields match: protocol,
\* facility, severity, timestamp, hostname, appname, procid, msgid,
\* structured_data and msg; two Messages that differ only in protocol are
\* not equal.
C19_MessageEquality ==
  (pc = "MessagesCompared" /\ verdict) =>
     /\ left.protocol = right.protocol
     /\ left.facility = right.facility
     /\ left.severity = right.severity
     /\ TsEq(left.timestamp, right.timestamp)
     /\ left.hostname = right.hostname
     /\ left.appname = right.appname
     /\ left.procid = right.procid
     /\ left.msgid = right.msgid
     /\ SameElements(left.structured_data, right.structured_data)
     /\ left.msg = right.msg

\* the value written between the quotes of the element text
WrittenValue == SubSeq(left, 8, Len(left) - 2)

\* a written value with its escape sequences replaced, pair by pair
RECURSIVE Unescaped(_)
Unescaped(v) ==
  IF Len(v) = 0 THEN << >>
  ELSE IF v[1] # "\\" \/ Len(v) = 1 THEN <<v[1]>> \o Unescaped(Tail(v))
  ELSE IF v[2] \in {"\"", "\\", "]"} THEN <<v[2]>> \o Unescaped(Drop(v, 2))
  ELSE IF v[2] = "n" THEN <<"\n">> \o Unescaped(Drop(v, 2))
  ELSE <<"\\", v[2]>> \o Unescaped(Drop(v, 2))

\* C20: the params accessor decodes each raw value by replacing \" with ",
\* \\ with one backslash, \] with ] and \n with a newline, and keeps a
\* backslash before any other character together with that character; the
\* raw values stored in the parsed element keep their escape sequences as
\* they were written.
C20_ParamsDecoded ==
  pc = "Decoded" =>
     /\ verdict.ok
     /\ verdict.raw = << <<<<"k">>, WrittenValue>> >>
     /\ verdict.decoded = << <<<<"k">>, Unescaped(WrittenValue)>> >>

C20_Witness ==
  /\ pc = "Decoded"
  /\ WrittenValue = <<"\\", "n", "\\", "m", "\\", "]">>
  /\ verdict.raw = << <<<<"k">>, <<"\\", "n", "\\", "m", "\\", "]">>>> >>
  /\ verdict.decoded = << <<<<"k">>, <<"\n", "\\", "m", "]">>>> >>

\* the written value is made of \", \\ and \n and has one of each
EscapedPieces == {<<"\\", "\"">>, <<"\\", "\\">>, <<"\\", "n">>}

RECURSIVE OnlyEscapes(_)
OnlyEscapes(v) ==
  IF Len(v) = 0 THEN TRUE
  ELSE Len(v) >= 2 /\ Take(v, 2) \in EscapedPieces /\ OnlyEscapes(Drop(v, 2))

\* the real characters of a value made of \", \\ and \n
RECURSIVE RealChars(_)
RealChars(v) ==
  IF Len(v) = 0 THEN << >>
  ELSE <<IF v[2] = "n" THEN "\n" ELSE v[2]>> \o RealChars(Drop(v, 2))

\* C21: a param value written with \", \\ and \n decodes to the real
\* characters, and writing the element again from the decoded value gives
\* back the text it was parsed from.
C21_EscapeRoundTrip ==
  (pc = "Displayed" /\ OnlyEscapes(WrittenValue)) =>
     /\ verdict.decoded = << <<<<"k">>, RealChars(WrittenValue)>> >>
     /\ right = left

\* the decoding half of C21 holds
C21_Decodes ==
  (pc \in {"Decoded", "Displayed"} /\ OnlyEscapes(WrittenValue)) =>
     verdict.decoded = << <<<<"k">>, RealChars(WrittenValue)>> >>

\* the text Display writes from the values as they are stored is the text
\* that was parsed
C21_RawDisplays ==
  pc \in {"Decoded", "Displayed"} =>
     FmtElement([id |-> verdict.id, params |-> verdict.raw]) = left

\* the line is dated Feb 29 without a year
DatedFeb29 == shape.kind = "3164" /\ shape.ts = TsFeb29

\* C22: when the year resolver returns a year in which the month and day of
\* a year-less RFC3164 timestamp do not exist (Feb 29, 2019), the timestamp
\* fails as an ordinary grammar failure: an exact entry point returns the
\* error and a permissive one the whole-input fallback.  With a resolver that
\* returns a leap year the same line is parsed.
C22_InvalidDateIsGrammarFailure ==
  (pc = "done" /\ DatedFeb29) =>
     IF env.resolver = "y2019"
     THEN IF exact
          THEN result.kind = "err" /\ result.error = GenericParseError
          ELSE /\ result.kind = "msg"
               /\ HeaderAbsent(result.msg)
               /\ result.msg.structured_data = << >>
               /\ result.msg.msg = input
     ELSE variant # "RFC5424" =>
            /\ result.kind = "msg"
            /\ result.msg.timestamp = Some([utc |-> 1583014455 - env.localOff, nanos |-> 0,
                                            off |-> env.localOff])

C22_Witness ==
  /\ pc = "done" /\ DatedFeb29 /\ env.resolver = "y2019" /\ exact
  /\ variant = "Either" /\ tried = <<"RFC5424", "RFC3164">> /\ calls = 1
  /\ IsSome(shape.tok2)
  /\ result.kind = "err"

C22_WitnessFallback ==
  /\ pc = "done" /\ DatedFeb29 /\ env.resolver = "y2019" /\ ~exact
  /\ tried = <<"RFC5424", "RFC3164", "fallback">> /\ calls = 1
  /\ result.kind = "msg" /\ result.msg.timestamp = None /\ result.msg.msg = input

\* the text the RFC3164 grammar reads its timestamp from
TimestampText == Space0(pri(input).rest)

\* the timestamp of the line is written with its year or as RFC3339
WrittenWithYear == shape.ts \in {TsWithYear, Ts3339, Ts3339Frac}

\* C23: during one call the year resolver is invoked at most once, and only
\* when the RFC3164 grammar was attempted and the year-less form matched; it
\* is not invoked for a line the RFC5424 grammar accepts, nor for a timestamp
\* written with its year or as RFC3339.  A year-less line that the RFC3164
\* grammar parses has invoked it.
C23_ResolverAtMostOnce ==
  /\ calls <= 1
  /\ calls = 1 => (InTried("RFC3164") /\ timestamp_3164_no_year(TimestampText).ok)
  /\ (pc = "done" /\ result.kind = "msg" /\ tried = <<"RFC5424">>) => calls = 0
  /\ (pc = "done" /\ WrittenWithYear) => calls = 0
  /\ (pc = "done" /\ IsSome(gen)) => calls = 0
  /\ (From3164 /\ shape.kind = "3164" /\ shape.ts = TsNoYear) => calls = 1

C23_Witness ==
  /\ From3164 /\ shape.ts = TsNoYear /\ calls = 1 /\ variant = "Either"
  /\ IsSome(result.msg.timestamp)

C23_WitnessWithYear ==
  /\ From3164 /\ shape.ts = TsWithYear /\ calls = 0 /\ IsSome(result.msg.timestamp)

\* the elements among the spans of a run, in the order of the run
RECURSIVE ElementsOf(_)
ElementsOf(run) == IF Len(run) = 0 THEN << >> ELSE run[1].el \o ElementsOf(Tail(run))

\* C24: in permissive mode, over a run of adjacent bracketed spans, every
\* span that matches the element grammar is returned as an element and every
\* span that does not is consumed up to its ] and yields nothing; parsing
\* goes on after a dropped span, to the end of the run, and the returned
\* elements are in the order they were written.
C24_PermissiveRun ==
  pc = "Collected" =>
     /\ verdict.ok
     /\ verdict.rest = << >>
     /\ verdict.val = ElementsOf(left)

C24_Witness ==
  /\ pc = "Collected" /\ Len(left) = 3
  /\ left[1].el = None /\ left[2].el # None /\ left[3].el # None
  /\ left[2].el # left[3].el
  /\ verdict.ok /\ verdict.val = left[2].el \o left[3].el

C24_WitnessAllDropped ==
  /\ pc = "Collected" /\ Len(left) = 2 /\ left[1].el = None /\ left[2].el = None
  /\ verdict.ok /\ verdict.val = << >> /\ verdict.rest = << >>

\* what the i-th call of next on an iterator over the element e returns
Yielded(e, i) ==
  IF i <= Len(e.params) THEN Some(<<e.params[i][1], Unescaped(e.params[i][2])>>) ELSE None

\* what an iterator over left has returned and where it stands
IterState ==
  pc = "Iterating" =>
     /\ \A i \in 1..Len(right.out) : right.out[i] = Yielded(left, i)
     /\ right.pos <= Len(left.params)
     /\ right.pos = IF Len(right.out) <= Len(left.params) THEN Len(right.out)
                    ELSE Len(left.params)

\* the steps of an iterator: the position never goes back, a new iterator
\* starts at the first pair, and the element stays as it is
IterStep ==
  pc = "Iterating" =>
     /\ left' = left
     /\ right'.made = right.made => right'.pos >= right.pos
     /\ right'.made # right.made => (right'.pos = 0 /\ right'.out = << >>)

\* C25: the params() iterator over an element with n params yields exactly
\* the n (name, decoded value) pairs in stored order and then None on every
\* further call; its position only increases and never exceeds n; each call
\* of params() starts again at the first pair; and iterating leaves the
\* stored raw params of the element unchanged.
C25_ParamsIterator == []IterState /\ [][IterStep]_vars

\* a second iterator over an element with two params has yielded both and
\* then None twice
C25_Witness ==
  /\ pc = "Iterating" /\ right.made = 2 /\ Len(left.params) = 2
  /\ left.params[2][2] = <<"x", "\\", "\"", "y">>
  /\ Len(right.out) = 4 /\ right.pos = 2
  /\ right.out[2] = Some(<<<<"b">>, <<"x", "\"", "y">>>>)
  /\ right.out[3] = None /\ right.out[4] = None

\* the line is one token, two or more spaces, and text; the line is one
\* token, one space, and text that begins with a word
TwoSpaces ==
  /\ shape.kind = "3164" /\ IsSome(shape.tok1) /\ IsNone(shape.tok2)
  /\ shape.sep \in Spaces /\ shape.sd = << >>
OneSpace ==
  /\ shape.kind = "3164" /\ IsSome(shape.tok1) /\ shape.tok2 = Some(Hi)
  /\ shape.sep \in {<<" ">>, <<":", " ">>} /\ shape.sd = << >>

\* C26: in the RFC3164 grammar, one token followed by two (or more) spaces
\* and then text is the only header token: it is the hostname (or, being
\* name[pid], appname and procid), no appname is taken from the text and msg
\* is the text; when only one space follows the token, the next word of the
\* text is taken as the appname and is not part of msg.
C26_HeaderEndsAtTwoSpaces ==
  /\ (From3164 /\ TwoSpaces) =>
        /\ result.msg.msg = shape.body
        /\ IF TagSplit(Unwrap(shape.tok1)) > 0
           THEN /\ result.msg.hostname = None
                /\ result.msg.appname = Some(TagName(Unwrap(shape.tok1)))
           ELSE /\ result.msg.hostname = Written(shape.tok1)
                /\ result.msg.appname = None
  /\ (From3164 /\ OneSpace) =>
        /\ result.msg.hostname = shape.tok1
        /\ result.msg.appname = Some(Hi)
        /\ result.msg.msg = shape.body

C26_Witness ==
  /\ From3164 /\ TwoSpaces /\ shape.sep = <<" ", " ">> /\ shape.tok1 = Some(Host)
  /\ input = Pri34 \o TsNoYear \o <<" ", "h", "o", "s", "t", " ", " ", "h", "i", " ", "a", "p", "p">>
  /\ result.msg.hostname = Some(Host) /\ result.msg.appname = None
  /\ result.msg.msg = <<"h", "i", " ", "a", "p", "p">>

C26_WitnessOneSpace ==
  /\ From3164 /\ OneSpace /\ shape.sep = <<" ">> /\ shape.tok1 = Some(Host)
  /\ input = Pri34 \o TsNoYear \o <<" ", "h", "o", "s", "t", " ", "h", "i", " ", "a", "p", "p">>
  /\ result.msg.hostname = Some(Host) /\ result.msg.appname = Some(Hi)
  /\ result.msg.msg = App

\* the first header token of the line carries a value
FirstTokenHasValue ==
  From3164 /\ shape.kind = "3164" /\ IsSome(shape.tok1) /\ shape.tok1 # Some(Dash)

\* the Message holds the first token, as hostname or as appname and procid
FirstTokenKept ==
  \/ result.msg.hostname = shape.tok1
  \/ /\ TagSplit(Unwrap(shape.tok1)) > 0
     /\ result.msg.appname = Some(TagName(Unwrap(shape.tok1)))
     /\ result.msg.procid = Some(ProcIdFrom(TagPid(Unwrap(shape.tok1))))

\* C27: resolve_host_and_tag never discards a token that carries a value:
\* whenever the first field has a value, the result holds it as hostname or,
\* taken apart, as appname and procid, also when the second field is
\* present but empty (-).
C27_NoTokenDiscarded == FirstTokenHasValue => FirstTokenKept

\* the token is kept whenever the second field is not the - of an empty field
TokenKeptUnlessDash ==
  (FirstTokenHasValue /\ shape.tok2 # Some(Dash)) => FirstTokenKept

\* a line dated Oct 11 22:14:15, without a year or with the year 2019, was
\* parsed by the RFC3164 grammar with a timezone supplied by the caller and
\* a resolver that returns 2019
ParsedAtOffset(ts) ==
  /\ From3164 /\ shape.kind = "3164" /\ shape.ts = ts
  /\ IsSome(env.tz) /\ env.resolver = "y2019"

\* Oct 11 2019 22:14:15 taken as local time at the caller's offset
LocalAtOffset ==
  Some([utc |-> 1570832055 - Unwrap(env.tz), nanos |-> 0, off |-> Unwrap(env.tz)])

\* C28: with a timezone supplied by the caller, the year-less form and the
\* explicit-year form of the same written date and time (the resolver
\* returning that year) give the same timestamp: in both the written time
\* is local time at the supplied offset.
C28_SameTimestampBothForms ==
  (ParsedAtOffset(TsNoYear) \/ ParsedAtOffset(TsWithYear)) =>
     /\ TsEq(result.msg.timestamp, LocalAtOffset)
     /\ Unwrap(result.msg.timestamp).off = Unwrap(env.tz)

\* the year-less form is local time at the supplied offset
NoYearIsLocalAtOffset ==
  ParsedAtOffset(TsNoYear) => result.msg.timestamp = LocalAtOffset

\* the explicit-year form is taken as UTC and shown at the supplied offset
WithYearIsUtc ==
  ParsedAtOffset(TsWithYear) =>
     result.msg.timestamp = Some([utc |-> 1570832055, nanos |-> 0, off |-> Unwrap(env.tz)])

\* C29: in every Message a permissive entry point returns, the timestamp is
\* absent if and only if the whole-input fallback was taken: both grammars
\* require a timestamp, and a Message without timestamp has every other
\* header field absent, no structured data and the whole input as msg.
C29_NoTimestampIffFallback ==
  (pc = "done" /\ ~exact) =>
     /\ result.kind = "msg"
     /\ result.msg.timestamp = None <=> InTried("fallback")
     /\ result.msg.timestamp = None =>
          /\ HeaderAbsent(result.msg)
          /\ result.msg.structured_data = << >>
          /\ result.msg.msg = input

\* a line with a priority and a header token but a timestamp that is none
C29_Witness ==
  /\ pc = "done" /\ ~exact /\ shape.kind = "3164" /\ shape.pri = Pri34 /\ shape.ts = TsBad
  /\ InTried("fallback")
  /\ result.msg.timestamp = None /\ result.msg.facility = None
  /\ result.msg.msg = input

C29_WitnessParsed ==
  /\ pc = "done" /\ ~exact /\ ~InTried("fallback") /\ shape.kind = "5424"
  /\ IsSome(result.msg.timestamp) /\ result.msg.hostname = None

\* the header token of the line a process id can come from: the second
\* token, or the first one when it is the only one
TagToken == IF IsSome(shape.tok2) THEN Unwrap(shape.tok2) ELSE Unwrap(shape.tok1)

\* C30: in every Message the RFC3164 grammar produces, a present procid
\* implies a present appname: the procid is only ever set together with the
\* appname taken from the same name[pid] token.
C30_ProcidImpliesAppname ==
  (From3164 /\ IsSome(result.msg.procid)) =>
     /\ IsSome(result.msg.appname)
     /\ (shape.kind = "3164" /\ IsSome(shape.tok1)) =>
          /\ TagSplit(TagToken) > 0
          /\ result.msg.appname = Some(TagName(TagToken))
          /\ result.msg.procid = Some(ProcIdFrom(TagPid(TagToken)))

C30_Witness ==
  /\ From3164 /\ shape.kind = "3164" /\ shape.tok1 = Some(AppPid) /\ IsNone(shape.tok2)
  /\ result.msg.procid = Some(PID(12)) /\ result.msg.appname = Some(App)
  /\ result.msg.hostname = None

\* a process id in brackets without a name comes with the empty appname
C30_WitnessBarePid ==
  /\ From3164 /\ shape.kind = "3164" /\ shape.tok2 = Some(BarePid)
  /\ result.msg.procid = Some(PID(12)) /\ result.msg.appname = Some(<< >>)

====
